---- MODULE Spec2Model ----
(***************************************************************************)
(* Course-swap matching engine: swap requests, the mutual match finder,    *)
(* the schedule conflict check and the match lifecycle (confirm, reject,   *)
(* contact exchange, completion).                                          *)
(*                                                                         *)
(* Rows of swap_requests and swap_matches are kept in insertion order; a   *)
(* row's id is its position, and a request's created_at is the position    *)
(* at which it was inserted (rows are never deleted).  A student's contact *)
(* information (full_name, email, student_id of the profile row) is        *)
(* identified with the student.  Handlers run one at a time in Spec.       *)
(***************************************************************************)
EXTENDS Integers, Sequences, FiniteSets, TLC

\* ---------------------------------------------------------------- bounds
MaxRequests == 3
MaxMatches == 2

MaxCourseRequests == 1

\* Longest lists of time slots handed to checkTimeConflicts.
MaxExisting == 2

MaxCandidate == 1
MaxCalls == 2

\* Latest clock reading.
MaxTime == 5

\* ------------------------------------------------------------ fixed data
Nil == "none"

Students == {"s1", "s2", "s3"}

Courses == {"c1", "c2", "c3"}

Priorities == {1}

\* time_slots rows of each course: day_of_week, start_time, end_time.
\* c1 and c3 meet at the same day and time; c2 starts with them and runs
\* one hour longer.
time_slots ==
  [c \in Courses |->
     CASE c = "c1" -> {[day_of_week |-> 1, start_time |-> 9, end_time |-> 10]}
       [] c = "c2" -> {[day_of_week |-> 1, start_time |-> 9, end_time |-> 11]}
       [] c = "c3" -> {[day_of_week |-> 1, start_time |-> 9, end_time |-> 10]}]

\* The enrollment tables the model starts from (enrolling has no conflict
\* check, so a student may hold two classes that meet at the same time).
EnrollmentConfigs ==
  { [s \in Students |-> CASE s = "s1" -> {"c1"}
                          [] s = "s2" -> {"c2"}
                          [] s = "s3" -> {"c2"}],
    [s \in Students |-> CASE s = "s1" -> {"c1", "c3"}
                          [] s = "s2" -> {"c2"}
                          [] s = "s3" -> {"c1", "c2"}] }

\* enrollments, swap_requests, swap_matches, course_requests: the tables.
\* expired: for each request table, how many of its rows (oldest first)
\*   have expires_at before the current time; expires_at is always the
\*   column default, creation time + 30 days, so rows expire in the order
\*   they were inserted.
\* calls: the handlers that have read their match and not yet written.
\* last: the last call that succeeded, with its response.
VARIABLES enrollments, swap_requests, swap_matches, last, course_requests, expired, calls

vars == <<enrollments, swap_requests, swap_matches, last, course_requests, expired, calls>>

\* ------------------------------------------------------------ helpers

\* PostgREST .single(): the row when exactly one row matches, else an error
\* (data null).  Returned as a sequence of zero or one rows.
Single(rows) ==
  IF Cardinality(rows) = 1 THEN <<CHOOSE r \in rows : TRUE>> ELSE <<>>

RequestIds(reqs) == 1..Len(reqs)

MatchIds(mats) == 1..Len(mats)

\* ------------------------------------------------- conflict checker

\* Mutant: the third clause (the new slot covers the existing one) is missing.
Overlaps_NoCover(existing, newSlot) ==
  /\ existing.day_of_week = newSlot.day_of_week
  /\ \/ (newSlot.start_time >= existing.start_time /\ newSlot.start_time < existing.end_time)
     \/ (newSlot.end_time > existing.start_time /\ newSlot.end_time <= existing.end_time)

Overlaps(existing, newSlot) ==
  /\ existing.day_of_week = newSlot.day_of_week
  /\ \/ (newSlot.start_time >= existing.start_time /\ newSlot.start_time < existing.end_time)
     \/ (newSlot.end_time > existing.start_time /\ newSlot.end_time <= existing.end_time)
     \/ (newSlot.start_time <= existing.start_time /\ newSlot.end_time >= existing.end_time)

checkTimeConflicts(existingTimeSlots, newTimeSlots) ==
  \E existing \in existingTimeSlots : \E newSlot \in newTimeSlots :
     Overlaps(existing, newSlot)

\* timeSlots of getStudentSchedule: the slots of every enrolled course.
getStudentSchedule(enr, studentId) ==
  UNION { time_slots[c] : c \in enr[studentId] }

\* The filter of canSwapWithoutConflicts: a schedule slot is dropped when
\* some slot of the given-up course has the same day, start and end.
CurrentSlots(schedule, courseSlots) ==
  { slot \in schedule :
      ~ \E courseSlot \in courseSlots :
          /\ courseSlot.day_of_week = slot.day_of_week
          /\ courseSlot.start_time = slot.start_time
          /\ courseSlot.end_time = slot.end_time }

canSwapWithoutConflicts(enr, studentAId, studentBId, courseAId, courseBId) ==
  LET courseATimeSlots == time_slots[courseAId]
      courseBTimeSlots == time_slots[courseBId]
      studentACurrentSlots == CurrentSlots(getStudentSchedule(enr, studentAId), courseATimeSlots)
      studentBCurrentSlots == CurrentSlots(getStudentSchedule(enr, studentBId), courseBTimeSlots)
      studentAHasConflict == checkTimeConflicts(studentACurrentSlots, courseBTimeSlots)
      studentBHasConflict == checkTimeConflicts(studentBCurrentSlots, courseATimeSlots)
  IN  ~studentAHasConflict /\ ~studentBHasConflict

\* ------------------------------------------------- mutual match finder

\* The pending-duplicate query: two .or() filters and one .eq() filter on
\* the same query are all ANDed by PostgREST.
ExistingMatch(mats, requestId, candidateId) ==
  { m \in MatchIds(mats) :
      /\ (mats[m].request_a_id = requestId \/ mats[m].request_b_id = requestId)
      /\ (mats[m].request_a_id = candidateId \/ mats[m].request_b_id = candidateId)
      /\ mats[m].match_status = "pending" }

\* Mutant: the .neq('requester_id', ...) filter is missing.
PotentialMatches_AnyRequester(reqs, request) ==
  { c \in RequestIds(reqs) :
      /\ reqs[c].from_course_id = request.desired_course_id
      /\ reqs[c].desired_course_id = request.from_course_id
      /\ reqs[c].status = "active" }

PotentialMatches(reqs, request) ==
  { c \in RequestIds(reqs) :
      /\ reqs[c].from_course_id = request.desired_course_id
      /\ reqs[c].desired_course_id = request.from_course_id
      /\ reqs[c].status = "active"
      /\ reqs[c].requester_id # request.requester_id }

\* ok = FALSE is the thrown 'Swap request not found or inactive'.
findMutualSwapMatches(reqs, mats, enr, requestId) ==
  LET found == Single({ r \in RequestIds(reqs) : r = requestId /\ reqs[r].status = "active" })
  IN  IF found = <<>>
      THEN [ok |-> FALSE, matches |-> {}]
      ELSE LET request == reqs[found[1]]
           IN  [ok |-> TRUE,
                matches |->
                  { c \in PotentialMatches(reqs, request) :
                      /\ canSwapWithoutConflicts(enr, request.requester_id, reqs[c].requester_id,
                                                 request.from_course_id, request.desired_course_id)
                      /\ ExistingMatch(mats, requestId, c) = {} }]

\* Mutant: each course column holds what its student asked for.
NewMatch_DesiredCourses(reqs, requestAId, requestBId) ==
  [request_a_id |-> requestAId,
   request_b_id |-> requestBId,
   student_a_id |-> reqs[requestAId].requester_id,
   student_b_id |-> reqs[requestBId].requester_id,
   course_a_id |-> reqs[requestAId].desired_course_id,
   course_b_id |-> reqs[requestBId].desired_course_id,
   match_status |-> "pending",
   student_a_confirmed |-> FALSE,
   student_b_confirmed |-> FALSE,
   student_a_completed |-> FALSE,
   student_b_completed |-> FALSE]

\* The row inserted by createSwapMatch; the flag columns take their
\* DEFAULT false.
NewMatch(reqs, requestAId, requestBId) ==
  [request_a_id |-> requestAId,
   request_b_id |-> requestBId,
   student_a_id |-> reqs[requestAId].requester_id,
   student_b_id |-> reqs[requestBId].requester_id,
   course_a_id |-> reqs[requestAId].from_course_id,
   course_b_id |-> reqs[requestBId].from_course_id,
   match_status |-> "pending",
   student_a_confirmed |-> FALSE,
   student_b_confirmed |-> FALSE,
   student_a_completed |-> FALSE,
   student_b_completed |-> FALSE]

\* Mutant: every request offering the same course as one of ids gets st.
SetStatus_WholePool(reqs, ids, st) ==
  [r \in RequestIds(reqs) |->
     IF \E i \in ids : reqs[r].from_course_id = reqs[i].from_course_id
     THEN [reqs[r] EXCEPT !.status = st] ELSE reqs[r]]

SetStatus(reqs, ids, st) ==
  [r \in RequestIds(reqs) |-> IF r \in ids THEN [reqs[r] EXCEPT !.status = st] ELSE reqs[r]]

\* Mutant: the two requests are stored in the opposite positions.
createSwapMatch_Swapped(reqs, mats, requestAId, requestBId) ==
  [requests |-> SetStatus(reqs, {requestAId, requestBId}, "matched"),
   matches |-> Append(mats, NewMatch(reqs, requestBId, requestAId)),
   id |-> Len(mats) + 1]

createSwapMatch(reqs, mats, requestAId, requestBId) ==
  [requests |-> SetStatus(reqs, {requestAId, requestBId}, "matched"),
   matches |-> Append(mats, NewMatch(reqs, requestAId, requestBId)),
   id |-> Len(mats) + 1]

\* (b.priority || 1) - (a.priority || 1)
EffPriority(req) == IF req.priority = 0 THEN 1 ELSE req.priority

\* sortedMatches[0]: highest priority first, then earliest created_at.
BestMatch(reqs, matches) ==
  CHOOSE b \in matches : \A c \in matches \ {b} :
     \/ EffPriority(reqs[b]) > EffPriority(reqs[c])
     \/ /\ EffPriority(reqs[b]) = EffPriority(reqs[c])
        /\ reqs[b].created_at <= reqs[c].created_at

\* Mutant: a request for which no candidate is left is closed.
processSwapRequest_ClosesUnmatched(reqs, mats, enr, requestId) ==
  LET found == findMutualSwapMatches(reqs, mats, enr, requestId)
  IN  IF ~found.ok
      THEN [ok |-> FALSE, matched |-> FALSE, requests |-> reqs, matches |-> mats,
            match |-> 0, matchedWith |-> 0]
      ELSE IF found.matches = {}
      THEN [ok |-> TRUE, matched |-> FALSE,
            requests |-> SetStatus(reqs, {requestId}, "expired"), matches |-> mats,
            match |-> 0, matchedWith |-> 0]
      ELSE LET bestMatch == BestMatch(reqs, found.matches)
               created == createSwapMatch(reqs, mats, requestId, bestMatch)
           IN  [ok |-> TRUE, matched |-> TRUE, requests |-> created.requests,
                matches |-> created.matches, match |-> created.id, matchedWith |-> bestMatch]

processSwapRequest(reqs, mats, enr, requestId) ==
  LET found == findMutualSwapMatches(reqs, mats, enr, requestId)
  IN  IF ~found.ok
      THEN [ok |-> FALSE, matched |-> FALSE, requests |-> reqs, matches |-> mats,
            match |-> 0, matchedWith |-> 0]
      ELSE IF found.matches = {}
      THEN [ok |-> TRUE, matched |-> FALSE, requests |-> reqs, matches |-> mats,
            match |-> 0, matchedWith |-> 0]
      ELSE LET bestMatch == BestMatch(reqs, found.matches)
               created == createSwapMatch(reqs, mats, requestId, bestMatch)
           IN  [ok |-> TRUE, matched |-> TRUE, requests |-> created.requests,
                matches |-> created.matches, match |-> created.id, matchedWith |-> bestMatch]

\* ------------------------------------------------- match lifecycle

\* BEFORE UPDATE trigger on swap_matches (OLD is oldRow, NEW is newRow).
update_match_status_on_confirmation(oldRow, newRow) ==
  LET n1 == IF /\ newRow.student_a_confirmed /\ newRow.student_b_confirmed
               /\ oldRow.match_status = "pending"
            THEN [newRow EXCEPT !.match_status = "confirmed"]
            ELSE newRow
  IN  IF /\ n1.student_a_completed /\ n1.student_b_completed
         /\ n1.match_status = "confirmed"
      THEN [n1 EXCEPT !.match_status = "completed"]
      ELSE n1

\* Mutant: the table has no status trigger.
UpdateMatch_NoTrigger(mats, matchId, newRow) ==
  [mats EXCEPT ![matchId] = newRow]

\* .update(row).eq('id', matchId) on swap_matches, the trigger included.
UpdateMatch(mats, matchId, newRow) ==
  [mats EXCEPT ![matchId] = update_match_status_on_confirmation(mats[matchId], newRow)]

\* Mutant: the match is selected by id alone.
SelectMatch_AnyStatus(mats, matchId, st) ==
  Single({ m \in MatchIds(mats) : m = matchId })

\* .eq('id', matchId).eq('match_status', st).single()
SelectMatch(mats, matchId, st) ==
  Single({ m \in MatchIds(mats) : m = matchId /\ mats[m].match_status = st })

\* Mutant: the participant check lets every student through.
IsParticipant_Anyone(match, studentId) ==
  match.student_a_id = studentId \/ match.student_a_id # studentId

IsParticipant(match, studentId) ==
  match.student_a_id = studentId \/ match.student_b_id = studentId

\* Mutant: the two branches are swapped, so the caller's own profile is picked.
OtherStudent_Swapped(match, studentId) ==
  IF match.student_a_id = studentId THEN match.student_a_id ELSE match.student_b_id

\* match.student_a_id === studentId ? match.student_b : match.student_a
OtherStudent(match, studentId) ==
  IF match.student_a_id = studentId THEN match.student_b_id ELSE match.student_a_id

\* match[otherConfirmationField]
OtherConfirmed(match, studentId) ==
  IF match.student_a_id = studentId THEN match.student_b_confirmed ELSE match.student_a_confirmed

\* Mutant: the match is confirmed when the caller's own flag was already set.
ConfirmUpdateData_OwnFlag(match, studentId) ==
  LET own == IF match.student_a_id = studentId
             THEN [match EXCEPT !.student_a_confirmed = TRUE]
             ELSE [match EXCEPT !.student_b_confirmed = TRUE]
      mine == IF match.student_a_id = studentId
              THEN match.student_a_confirmed ELSE match.student_b_confirmed
  IN  IF mine \/ OtherConfirmed(match, studentId)
      THEN [own EXCEPT !.match_status = "confirmed"]
      ELSE own

\* The row confirmSwapMatch writes: the read row with updateData applied.
ConfirmUpdateData(match, studentId) ==
  LET own == IF match.student_a_id = studentId
             THEN [match EXCEPT !.student_a_confirmed = TRUE]
             ELSE [match EXCEPT !.student_b_confirmed = TRUE]
  IN  IF OtherConfirmed(match, studentId)
      THEN [own EXCEPT !.match_status = "confirmed"]
      ELSE own

\* Mutant: the release test reads the caller's own flag.
ConfirmReleasesContact_OwnFlag(match, studentId) ==
  IF match.student_a_id = studentId THEN match.student_a_confirmed ELSE match.student_b_confirmed

\* match[otherConfirmationField] || updateData.match_status === 'confirmed'
ConfirmReleasesContact(match, studentId) ==
  \/ OtherConfirmed(match, studentId)
  \/ ConfirmUpdateData(match, studentId).match_status = "confirmed"

Failure(reqs, mats, err) ==
  [ok |-> FALSE, error |-> err, requests |-> reqs, matches |-> mats,
   status |-> Nil, contact |-> Nil, detail |-> <<>>]

confirmSwapMatch(reqs, mats, matchId, studentId) ==
  LET row == SelectMatch(mats, matchId, "pending")
  IN  IF row = <<>>
      THEN Failure(reqs, mats, "Swap match not found or already processed")
      ELSE LET match == mats[row[1]]
           IN  IF ~IsParticipant(match, studentId)
               THEN Failure(reqs, mats, "Student not part of this match")
               ELSE [ok |-> TRUE, error |-> Nil, requests |-> reqs,
                     matches |-> UpdateMatch(mats, matchId, ConfirmUpdateData(match, studentId)),
                     status |-> IF ConfirmReleasesContact(match, studentId)
                                THEN "confirmed" ELSE "waiting_for_other_confirmation",
                     contact |-> IF ConfirmReleasesContact(match, studentId)
                                 THEN OtherStudent(match, studentId) ELSE Nil,
                     detail |-> <<>>]

\* Mutant: only request_a is returned to active.
rejectMatch_OnlyRequestA(reqs, mats, matchId, studentId) ==
  LET row == SelectMatch(mats, matchId, "pending")
  IN  IF row = <<>>
      THEN Failure(reqs, mats, "Swap match not found or already processed")
      ELSE LET match == mats[row[1]]
           IN  IF ~IsParticipant(match, studentId)
               THEN Failure(reqs, mats, "Not authorized to reject this match")
               ELSE [ok |-> TRUE, error |-> Nil,
                     requests |-> SetStatus(reqs, {match.request_a_id}, "active"),
                     matches |-> UpdateMatch(mats, matchId, [match EXCEPT !.match_status = "rejected"]),
                     status |-> "rejected", contact |-> Nil, detail |-> <<>>]

\* POST /matches/:matchId/reject
rejectMatch(reqs, mats, matchId, studentId) ==
  LET row == SelectMatch(mats, matchId, "pending")
  IN  IF row = <<>>
      THEN Failure(reqs, mats, "Swap match not found or already processed")
      ELSE LET match == mats[row[1]]
           IN  IF ~IsParticipant(match, studentId)
               THEN Failure(reqs, mats, "Not authorized to reject this match")
               ELSE [ok |-> TRUE, error |-> Nil,
                     requests |-> SetStatus(reqs, {match.request_a_id, match.request_b_id}, "active"),
                     matches |-> UpdateMatch(mats, matchId, [match EXCEPT !.match_status = "rejected"]),
                     status |-> "rejected", contact |-> Nil, detail |-> <<>>]

\* Mutant: the status filter of the select is missing.
getMatchContactInfo_AnyStatus(reqs, mats, matchId, studentId) ==
  IF matchId \notin MatchIds(mats)
  THEN Failure(reqs, mats, "Match not found or not confirmed yet")
  ELSE LET match == mats[matchId]
       IN  IF ~IsParticipant(match, studentId)
           THEN Failure(reqs, mats, "Student not part of this match")
           ELSE [ok |-> TRUE, error |-> Nil, requests |-> reqs, matches |-> mats,
                 status |-> "contact", contact |-> OtherStudent(match, studentId),
                 detail |-> IF match.student_a_id = studentId
                            THEN <<match.course_a_id, match.course_b_id>>
                            ELSE <<match.course_b_id, match.course_a_id>>]

getMatchContactInfo(reqs, mats, matchId, studentId) ==
  LET row == SelectMatch(mats, matchId, "confirmed")
  IN  IF row = <<>>
      THEN Failure(reqs, mats, "Match not found or not confirmed yet")
      ELSE LET match == mats[row[1]]
           IN  IF ~IsParticipant(match, studentId)
               THEN Failure(reqs, mats, "Student not part of this match")
               ELSE [ok |-> TRUE, error |-> Nil, requests |-> reqs, matches |-> mats,
                     status |-> "contact", contact |-> OtherStudent(match, studentId),
                     detail |-> IF match.student_a_id = studentId
                                THEN <<match.course_a_id, match.course_b_id>>
                                ELSE <<match.course_b_id, match.course_a_id>>]

\* Mutant: the caller's own completion field is read.
OtherCompleted_OwnField(match, studentId) ==
  IF match.student_a_id = studentId THEN match.student_a_completed ELSE match.student_b_completed

\* match[otherCompletionField]
OtherCompleted(match, studentId) ==
  IF match.student_a_id = studentId THEN match.student_b_completed ELSE match.student_a_completed

\* Mutant: the match is closed without looking at the other student's flag.
CompleteUpdateData_Unilateral(match, studentId) ==
  LET own == IF match.student_a_id = studentId
             THEN [match EXCEPT !.student_a_completed = TRUE]
             ELSE [match EXCEPT !.student_b_completed = TRUE]
  IN  [own EXCEPT !.match_status = "completed"]

\* The row markSwapCompleted writes: the read row with updateData applied.
CompleteUpdateData(match, studentId) ==
  LET own == IF match.student_a_id = studentId
             THEN [match EXCEPT !.student_a_completed = TRUE]
             ELSE [match EXCEPT !.student_b_completed = TRUE]
  IN  IF OtherCompleted(match, studentId)
      THEN [own EXCEPT !.match_status = "completed"]
      ELSE own

markSwapCompleted(reqs, mats, matchId, studentId) ==
  LET row == SelectMatch(mats, matchId, "confirmed")
  IN  IF row = <<>>
      THEN Failure(reqs, mats, "Match not found or not in confirmed status")
      ELSE LET match == mats[row[1]]
           IN  IF ~IsParticipant(match, studentId)
               THEN Failure(reqs, mats, "Student not part of this match")
               ELSE [ok |-> TRUE, error |-> Nil,
                     requests |-> IF OtherCompleted(match, studentId)
                                  THEN SetStatus(reqs, {match.request_a_id, match.request_b_id}, "completed")
                                  ELSE reqs,
                     matches |-> UpdateMatch(mats, matchId, CompleteUpdateData(match, studentId)),
                     status |-> IF CompleteUpdateData(match, studentId).match_status = "completed"
                                THEN "completed" ELSE "waiting",
                     contact |-> Nil, detail |-> <<>>]

\* ------------------------------------------------- request creation

\* The duplicate check of POST /requests: .single() yields a row only when
\* exactly one active request of the caller has this course pair.
ExistingRequest(reqs, studentId, fromCourseId, desiredCourseId) ==
  Single({ r \in RequestIds(reqs) :
             /\ reqs[r].requester_id = studentId
             /\ reqs[r].from_course_id = fromCourseId
             /\ reqs[r].desired_course_id = desiredCourseId
             /\ reqs[r].status = "active" })

NewRequest(reqs, studentId, fromCourseId, desiredCourseId, priority) ==
  [requester_id |-> studentId,
   from_course_id |-> fromCourseId,
   desired_course_id |-> desiredCourseId,
   priority |-> priority,
   status |-> "active",
   created_at |-> Len(reqs) + 1]

CreateFailure(reqs, mats, err) ==
  [ok |-> FALSE, error |-> err, requests |-> reqs, matches |-> mats,
   rid |-> 0, matched |-> FALSE, match |-> 0, matchedWith |-> 0]

\* Mutant: the 'Cannot swap a course for itself' check is missing.
createSwapRequest_NoSelfCheck(reqs, mats, enr, studentId, fromCourseId, desiredCourseId, priority) ==
  IF fromCourseId = Nil \/ desiredCourseId = Nil
  THEN CreateFailure(reqs, mats, "Both fromCourseId and desiredCourseId are required")
  ELSE IF fromCourseId \notin enr[studentId]
  THEN CreateFailure(reqs, mats, "You must be enrolled in the course you want to swap from")
  ELSE IF ExistingRequest(reqs, studentId, fromCourseId, desiredCourseId) # <<>>
  THEN CreateFailure(reqs, mats, "You already have an active swap request for these courses")
  ELSE LET inserted == Append(reqs, NewRequest(reqs, studentId, fromCourseId, desiredCourseId, priority))
           rid == Len(inserted)
           matchResult == processSwapRequest(inserted, mats, enr, rid)
       IN  [ok |-> TRUE, error |-> Nil, requests |-> matchResult.requests,
            matches |-> matchResult.matches, rid |-> rid,
            matched |-> matchResult.matched, match |-> matchResult.match,
            matchedWith |-> matchResult.matchedWith]

\* POST /requests
createSwapRequest(reqs, mats, enr, studentId, fromCourseId, desiredCourseId, priority) ==
  IF fromCourseId = Nil \/ desiredCourseId = Nil
  THEN CreateFailure(reqs, mats, "Both fromCourseId and desiredCourseId are required")
  ELSE IF fromCourseId = desiredCourseId
  THEN CreateFailure(reqs, mats, "Cannot swap a course for itself")
  ELSE IF fromCourseId \notin enr[studentId]
  THEN CreateFailure(reqs, mats, "You must be enrolled in the course you want to swap from")
  ELSE IF ExistingRequest(reqs, studentId, fromCourseId, desiredCourseId) # <<>>
  THEN CreateFailure(reqs, mats, "You already have an active swap request for these courses")
  ELSE LET inserted == Append(reqs, NewRequest(reqs, studentId, fromCourseId, desiredCourseId, priority))
           rid == Len(inserted)
           matchResult == processSwapRequest(inserted, mats, enr, rid)
       IN  [ok |-> TRUE, error |-> Nil, requests |-> matchResult.requests,
            matches |-> matchResult.matches, rid |-> rid,
            matched |-> matchResult.matched, match |-> matchResult.match,
            matchedWith |-> matchResult.matchedWith]

\* ------------------------------------------------- state machine

\* The match row and the statuses of its two requests as an operation
\* finds them (empty when the match does not exist).
PreMatch(mats, matchId) ==
  IF matchId \in MatchIds(mats) THEN <<mats[matchId]>> ELSE <<>>

PreRequests(reqs, mats, matchId) ==
  IF matchId \in MatchIds(mats)
  THEN <<reqs[mats[matchId].request_a_id].status, reqs[mats[matchId].request_b_id].status>>
  ELSE <<>>

NoCall ==
  [op |-> "init", caller |-> Nil, mid |-> 0, rid |-> 0,
   status |-> Nil, contact |-> Nil, detail |-> <<>>, matched |-> FALSE, matchedWith |-> 0,
   pre |-> <<>>, preReq |-> <<>>, error |-> Nil, results |-> <<>>,
   args |-> <<>>, result |-> FALSE]

NoneExpired == [swap_requests |-> 0, course_requests |-> 0]

Init ==
  /\ enrollments \in EnrollmentConfigs
  /\ swap_requests = <<>>
  /\ swap_matches = <<>>
  /\ course_requests = <<>>
  /\ expired = NoneExpired
  /\ calls = {}
  /\ last = NoCall

\* A handler that fails answers with an error and writes nothing: the step
\* leaves every variable as it is, and `last' keeps the last call that
\* succeeded together with its response.
CreateRequest(s, f, d, p) ==
  LET res == createSwapRequest(swap_requests, swap_matches, enrollments, s, f, d, p)
  IN  /\ Len(res.requests) <= MaxRequests
      /\ Len(res.matches) <= MaxMatches
      /\ IF res.ok
         THEN /\ swap_requests' = res.requests
              /\ swap_matches' = res.matches
              /\ last' = [NoCall EXCEPT !.op = "create", !.caller = s, !.rid = res.rid,
                                        !.mid = res.match, !.matched = res.matched,
                                        !.matchedWith = res.matchedWith]
              /\ UNCHANGED <<enrollments, course_requests, expired, calls>>
         ELSE UNCHANGED vars

\* Mutant: a Confirm that completes the confirmation executes the swap in
\* the enrollments table, as executeSwap of the earlier matching service did.
Lifecycle_ExecutesSwap(opName, res, m, s) ==
  IF res.ok
  THEN /\ swap_requests' = res.requests
       /\ swap_matches' = res.matches
       /\ last' = [NoCall EXCEPT !.op = opName, !.caller = s, !.mid = m,
                                 !.status = res.status, !.contact = res.contact,
                                 !.detail = res.detail,
                                 !.pre = PreMatch(swap_matches, m),
                                 !.preReq = PreRequests(swap_requests, swap_matches, m)]
       /\ enrollments' =
            IF opName = "confirm" /\ res.status = "confirmed"
            THEN [enrollments EXCEPT
                    ![swap_matches[m].student_a_id] =
                       (@ \ {swap_matches[m].course_a_id}) \cup {swap_matches[m].course_b_id},
                    ![swap_matches[m].student_b_id] =
                       (@ \ {swap_matches[m].course_b_id}) \cup {swap_matches[m].course_a_id}]
            ELSE enrollments
       /\ UNCHANGED <<course_requests, expired, calls>>
  ELSE UNCHANGED vars

Lifecycle(opName, res, m, s) ==
  IF res.ok
  THEN /\ swap_requests' = res.requests
       /\ swap_matches' = res.matches
       /\ last' = [NoCall EXCEPT !.op = opName, !.caller = s, !.mid = m,
                                 !.status = res.status, !.contact = res.contact,
                                 !.detail = res.detail,
                                 !.pre = PreMatch(swap_matches, m),
                                 !.preReq = PreRequests(swap_requests, swap_matches, m)]
       /\ UNCHANGED <<enrollments, course_requests, expired, calls>>
  ELSE UNCHANGED vars

Confirm(m, s) ==
  Lifecycle("confirm", confirmSwapMatch(swap_requests, swap_matches, m, s), m, s)

Reject(m, s) ==
  Lifecycle("reject", rejectMatch(swap_requests, swap_matches, m, s), m, s)

GetContactInfo(m, s) ==
  Lifecycle("contact", getMatchContactInfo(swap_requests, swap_matches, m, s), m, s)

MarkCompleted(m, s) ==
  Lifecycle("complete", markSwapCompleted(swap_requests, swap_matches, m, s), m, s)

Next ==
  \/ \E s \in Students, f \in Courses \cup {Nil}, d \in Courses \cup {Nil}, p \in Priorities :
        CreateRequest(s, f, d, p)
  \/ \E m \in 1..MaxMatches, s \in Students : Confirm(m, s)
  \/ \E m \in 1..MaxMatches, s \in Students : Reject(m, s)
  \/ \E m \in 1..MaxMatches, s \in Students : GetContactInfo(m, s)
  \/ \E m \in 1..MaxMatches, s \in Students : MarkCompleted(m, s)

Spec == Init /\ [][Next]_vars

\* ------------------------------------------------- dependency failures

\* The database calls of the match attempt that can come back with an
\* error, named by what they fetch or write ("none": every call succeeds).
MatchFaults ==
  {"none", "request_query", "candidate_query", "schedule", "duplicate_query",
   "request_read", "match_insert", "request_update"}

\* findMutualSwapMatches when the call named by fault fails: the first two
\* queries throw; a failure inside canSwapWithoutConflicts is caught and
\* answers false; the error of the pending-duplicate query is not read, its
\* data is null and the candidate is kept.
findMutualSwapMatchesFaulty(reqs, mats, enr, requestId, fault) ==
  LET found == findMutualSwapMatches(reqs, mats, enr, requestId)
  IN  IF fault \in {"request_query", "candidate_query"} \/ ~found.ok
      THEN [ok |-> FALSE, matches |-> {}]
      ELSE IF fault = "schedule"
      THEN [ok |-> TRUE, matches |-> {}]
      ELSE IF fault = "duplicate_query"
      THEN [ok |-> TRUE,
            matches |->
              { c \in PotentialMatches(reqs, reqs[requestId]) :
                  canSwapWithoutConflicts(enr, reqs[requestId].requester_id, reqs[c].requester_id,
                                          reqs[requestId].from_course_id,
                                          reqs[requestId].desired_course_id) }]
      ELSE found

\* createSwapMatch when the call named by fault fails: a failed read of the
\* two requests or a failed insert throws before any write; the results of
\* the two request updates are not looked at.
createSwapMatchFaulty(reqs, mats, requestAId, requestBId, fault) ==
  IF fault \in {"request_read", "match_insert"}
  THEN [ok |-> FALSE, requests |-> reqs, matches |-> mats, id |-> 0]
  ELSE LET created == createSwapMatch(reqs, mats, requestAId, requestBId)
       IN  [ok |-> TRUE,
            requests |-> IF fault = "request_update" THEN reqs ELSE created.requests,
            matches |-> created.matches,
            id |-> created.id]

processSwapRequestFaulty(reqs, mats, enr, requestId, fault) ==
  LET found == findMutualSwapMatchesFaulty(reqs, mats, enr, requestId, fault)
      thrown == [ok |-> FALSE, matched |-> FALSE, requests |-> reqs, matches |-> mats,
                 match |-> 0, matchedWith |-> 0]
  IN  IF ~found.ok
      THEN thrown
      ELSE IF found.matches = {}
      THEN [ok |-> TRUE, matched |-> FALSE, requests |-> reqs, matches |-> mats,
            match |-> 0, matchedWith |-> 0]
      ELSE LET bestMatch == BestMatch(reqs, found.matches)
               created == createSwapMatchFaulty(reqs, mats, requestId, bestMatch, fault)
           IN  IF ~created.ok
               THEN thrown
               ELSE [ok |-> TRUE, matched |-> TRUE, requests |-> created.requests,
                     matches |-> created.matches, match |-> created.id,
                     matchedWith |-> bestMatch]

\* Mutant: the match attempt is not wrapped in its own try/catch, so its
\* error reaches the handler's outer catch and the call answers 500.
createSwapRequestFaulty_NoCatch(reqs, mats, enr, studentId, fromCourseId, desiredCourseId, priority, fault) ==
  LET plain == createSwapRequest(reqs, mats, enr, studentId, fromCourseId, desiredCourseId, priority)
      inserted == Append(reqs, NewRequest(reqs, studentId, fromCourseId, desiredCourseId, priority))
      matchResult == processSwapRequestFaulty(inserted, mats, enr, Len(inserted), fault)
  IN  IF ~plain.ok
      THEN plain
      ELSE IF ~matchResult.ok
      THEN [CreateFailure(inserted, mats, "Internal server error") EXCEPT !.rid = Len(inserted)]
      ELSE [ok |-> TRUE, error |-> Nil, requests |-> matchResult.requests,
            matches |-> matchResult.matches, rid |-> Len(inserted),
            matched |-> matchResult.matched, match |-> matchResult.match,
            matchedWith |-> matchResult.matchedWith]

\* POST /requests when a call of the match attempt fails: the validations
\* and the insert are those of createSwapRequest; an error thrown by
\* processSwapRequest is caught and answered with 201 and
\* matchResult {matched: false, error}.
createSwapRequestFaulty(reqs, mats, enr, studentId, fromCourseId, desiredCourseId, priority, fault) ==
  LET plain == createSwapRequest(reqs, mats, enr, studentId, fromCourseId, desiredCourseId, priority)
      inserted == Append(reqs, NewRequest(reqs, studentId, fromCourseId, desiredCourseId, priority))
      matchResult == processSwapRequestFaulty(inserted, mats, enr, Len(inserted), fault)
  IN  IF ~plain.ok
      THEN plain
      ELSE IF ~matchResult.ok
      THEN [ok |-> TRUE, error |-> "match error", requests |-> inserted, matches |-> mats,
            rid |-> Len(inserted), matched |-> FALSE, match |-> 0, matchedWith |-> 0]
      ELSE [ok |-> TRUE, error |-> Nil, requests |-> matchResult.requests,
            matches |-> matchResult.matches, rid |-> Len(inserted),
            matched |-> matchResult.matched, match |-> matchResult.match,
            matchedWith |-> matchResult.matchedWith]

CreateRequestFaulty(s, f, d, p, fault) ==
  \E res \in {createSwapRequestFaulty(swap_requests, swap_matches, enrollments, s, f, d, p, fault)} :
      /\ Len(res.requests) <= MaxRequests
      /\ Len(res.matches) <= MaxMatches
      /\ IF res.ok
         THEN /\ swap_requests' = res.requests
              /\ swap_matches' = res.matches
              /\ last' = [NoCall EXCEPT !.op = "create", !.caller = s, !.rid = res.rid,
                                        !.mid = res.match, !.matched = res.matched,
                                        !.matchedWith = res.matchedWith,
                                        !.error = res.error]
              /\ UNCHANGED <<enrollments, course_requests, expired, calls>>
         ELSE UNCHANGED vars

NextFaults ==
  \/ \E s \in Students, f \in Courses, d \in Courses, p \in Priorities :
        \E fault \in MatchFaults : CreateRequestFaulty(s, f, d, p, fault)
  \/ \E m \in 1..MaxMatches, s \in Students : Reject(m, s)

SpecFaults == Init /\ [][NextFaults]_vars

\* The calls of markSwapCompleted whose failure is looked at: the update of
\* the match ("none": every call succeeds).
CompletionFaults == {"none", "match_update"}

\* markSwapCompleted when its match update comes back with an error: done
\* is what the call does when nothing fails; the two request updates have
\* been awaited before the match update, then 'Error marking swap as
\* completed' is thrown and the match row stays as it is in mats.
markSwapCompletedFaulty(mats, done, fault) ==
  IF ~done.ok \/ fault = "none"
  THEN done
  ELSE [done EXCEPT !.ok = FALSE, !.error = "Error marking swap as completed",
                    !.matches = mats, !.status = Nil]

\* POST /matches/:matchId/complete; a call whose match update fails
\* answers with an error after it has written the requests.
MarkCompletedFaulty(m, s, fault) ==
  \E res \in {markSwapCompletedFaulty(swap_matches,
                                       markSwapCompleted(swap_requests, swap_matches, m, s),
                                       fault)} :
      IF res.error \in {Nil, "Error marking swap as completed"}
      THEN /\ swap_requests' = res.requests
           /\ swap_matches' = res.matches
           /\ last' = [NoCall EXCEPT !.op = "complete", !.caller = s, !.mid = m,
                                     !.status = res.status, !.error = res.error,
                                     !.pre = PreMatch(swap_matches, m),
                                     !.preReq = PreRequests(swap_requests, swap_matches, m)]
           /\ UNCHANGED <<enrollments, course_requests, expired, calls>>
      ELSE UNCHANGED vars

NextCompletion ==
  \/ \E s \in Students, f \in Courses, d \in Courses, p \in Priorities : CreateRequest(s, f, d, p)
  \/ \E m \in 1..MaxMatches, s \in Students : Confirm(m, s)
  \/ \E m \in 1..MaxMatches, s \in Students :
        \E fault \in CompletionFaults : MarkCompletedFaulty(m, s, fault)

SpecCompletion == Init /\ [][NextCompletion]_vars

\* ------------------------------------------------- course requests

CourseRequestIds(crs) == 1..Len(crs)

\* The row inserted by POST /courses/requests; status takes its DEFAULT.
NewCourseRequest(studentId, courseId, priority) ==
  [student_id |-> studentId,
   requested_course_id |-> courseId,
   priority |-> priority,
   status |-> "active"]

\* POST /courses/requests.  The insert fails on UNIQUE(student_id,
\* requested_course_id) when the student has any row for this course.
createCourseRequest(crs, enr, studentId, courseId, priority) ==
  LET existingRequest ==
        Single({ c \in CourseRequestIds(crs) :
                   /\ crs[c].student_id = studentId
                   /\ crs[c].requested_course_id = courseId
                   /\ crs[c].status = "active" })
      unique == \A c \in CourseRequestIds(crs) :
                   ~(crs[c].student_id = studentId /\ crs[c].requested_course_id = courseId)
  IN  IF courseId = Nil \/ courseId \notin Courses
      THEN [ok |-> FALSE, course_requests |-> crs]
      ELSE IF courseId \in enr[studentId]
      THEN [ok |-> FALSE, course_requests |-> crs]
      ELSE IF existingRequest # <<>> \/ ~unique
      THEN [ok |-> FALSE, course_requests |-> crs]
      ELSE [ok |-> TRUE,
            course_requests |-> Append(crs, NewCourseRequest(studentId, courseId, priority))]

findCoursesToSwapFor(reqs, requestedCourseId) ==
  { r \in RequestIds(reqs) :
      reqs[r].from_course_id = requestedCourseId /\ reqs[r].status = "active" }

\* The swap requests that offer the requested course and want a course the
\* requesting student is enrolled in, without a schedule conflict.
\* ok = FALSE is the thrown 'Course request not found or inactive'.
findMatchesForCourseRequest(reqs, crs, enr, courseRequestId) ==
  LET found == Single({ c \in CourseRequestIds(crs) :
                          c = courseRequestId /\ crs[c].status = "active" })
  IN  IF found = <<>>
      THEN [ok |-> FALSE, matches |-> {}]
      ELSE LET courseRequest == crs[found[1]]
           IN  [ok |-> TRUE,
                matches |->
                  { r \in findCoursesToSwapFor(reqs, courseRequest.requested_course_id) :
                      /\ reqs[r].desired_course_id \in enr[courseRequest.student_id]
                      /\ canSwapWithoutConflicts(enr, courseRequest.student_id,
                                                 reqs[r].requester_id,
                                                 reqs[r].desired_course_id,
                                                 courseRequest.requested_course_id) }]

\* The request inserted by createSwapFromCourseRequest; status takes its
\* DEFAULT 'active'.
GeneratedSwapRequest(reqs, courseRequest, swapRequest) ==
  NewRequest(reqs, courseRequest.student_id, swapRequest.desired_course_id,
             courseRequest.requested_course_id, courseRequest.priority)

createSwapFromCourseRequest(reqs, mats, crs, courseRequestId, swapRequestId) ==
  LET inserted == Append(reqs, GeneratedSwapRequest(reqs, crs[courseRequestId], reqs[swapRequestId]))
      created == createSwapMatch(inserted, mats, Len(inserted), swapRequestId)
  IN  [requests |-> created.requests,
       matches |-> created.matches,
       course_requests |-> [crs EXCEPT ![courseRequestId].status = "matched"]]

\* matches[0] after the sort by combined priority.  The sort has no
\* tie-break and the queries no ORDER BY: among the candidates of highest
\* combined priority the first one returned wins, here `pick' when it is
\* one of them.
BestCourseMatch(reqs, matches, pick) ==
  LET best == { b \in matches : \A c \in matches : reqs[b].priority >= reqs[c].priority }
  IN  IF pick \in best THEN pick ELSE CHOOSE b \in best : \A c \in best : b <= c

processCourseRequest(reqs, mats, crs, enr, courseRequestId, pick) ==
  LET found == findMatchesForCourseRequest(reqs, crs, enr, courseRequestId)
      same == [requests |-> reqs, matches |-> mats, course_requests |-> crs]
  IN  IF ~found.ok
      THEN [ok |-> FALSE, matched |-> FALSE, db |-> same]
      ELSE IF found.matches = {}
      THEN [ok |-> TRUE, matched |-> FALSE, db |-> same]
      ELSE [ok |-> TRUE, matched |-> TRUE,
            db |-> createSwapFromCourseRequest(reqs, mats, crs, courseRequestId,
                                               BestCourseMatch(reqs, found.matches, pick))]

\* ------------------------------------------------- sweep

\* The failures injected into the sweep's processSwapRequest calls.
SweepFaults == {"none", "candidate_query"}

\* .eq('status', 'active').lt('expires_at', now)
SelectExpiredActive(table, expiredRows) ==
  { r \in 1..Len(table) : table[r].status = "active" /\ r <= expiredRows }

\* The orders in which a query without ORDER BY can return the rows ids.
Orders(ids) ==
  { o \in [1..Cardinality(ids) -> ids] : \A i, j \in 1..Cardinality(ids) : o[i] = o[j] => i = j }

\* The first loop of batchProcessSwaps, from its i-th selected request on.
RECURSIVE SweepSwapRequests(_, _, _, _, _)
SweepSwapRequests(db, enr, order, faults, i) ==
  IF i > Len(order)
  THEN db
  ELSE LET res == processSwapRequestFaulty(db.requests, db.matches, enr, order[i], faults[order[i]])
           entry == [type |-> "swap", requestId |-> order[i],
                     matched |-> res.matched, error |-> ~res.ok]
       IN  SweepSwapRequests([db EXCEPT !.requests = res.requests,
                                        !.matches = res.matches,
                                        !.results = Append(@, entry)],
                             enr, order, faults, i + 1)

\* The second loop of batchProcessSwaps.
RECURSIVE SweepCourseRequests(_, _, _, _, _)
SweepCourseRequests(db, enr, order, pick, i) ==
  IF i > Len(order)
  THEN db
  ELSE LET res == processCourseRequest(db.requests, db.matches, db.course_requests, enr,
                                       order[i], pick)
           entry == [type |-> "course_request", requestId |-> order[i],
                     matched |-> res.matched, error |-> ~res.ok]
       IN  SweepCourseRequests([db EXCEPT !.requests = res.db.requests,
                                          !.matches = res.db.matches,
                                          !.course_requests = res.db.course_requests,
                                          !.results = Append(@, entry)],
                               enr, order, pick, i + 1)

\* Mutant: the first loop has no try/catch of its own; the first injected
\* failure ends the sweep.
batchProcessSwaps_Abort(reqs, mats, crs, enr, swapOrder, courseOrder, faults, pick) ==
  LET start == [requests |-> reqs, matches |-> mats, course_requests |-> crs, results |-> <<>>]
      failingAt == { i \in 1..Len(swapOrder) : faults[swapOrder[i]] # "none" }
      upto == IF failingAt = {} THEN Len(swapOrder)
              ELSE (CHOOSE i \in failingAt : \A j \in failingAt : i <= j) - 1
      swapsDone == SweepSwapRequests(start, enr, SubSeq(swapOrder, 1, upto), faults, 1)
  IN  IF failingAt = {}
      THEN SweepCourseRequests(swapsDone, enr, courseOrder, pick, 1)
      ELSE swapsDone

\* swapOrder and courseOrder are the two selections in the order the
\* database returned them.
batchProcessSwaps(reqs, mats, crs, enr, swapOrder, courseOrder, faults, pick) ==
  LET start == [requests |-> reqs, matches |-> mats, course_requests |-> crs, results |-> <<>>]
      swapsDone == SweepSwapRequests(start, enr, swapOrder, faults, 1)
  IN  SweepCourseRequests(swapsDone, enr, courseOrder, pick, 1)

CreateCourseRequest(s, c, p) ==
  \E res \in {createCourseRequest(course_requests, enrollments, s, c, p)} :
      /\ res.ok
      /\ Len(res.course_requests) <= MaxCourseRequests
      /\ course_requests' = res.course_requests
      /\ last' = [NoCall EXCEPT !.op = "course_request", !.caller = s,
                                !.rid = Len(res.course_requests)]
      /\ UNCHANGED <<enrollments, swap_requests, swap_matches, expired, calls>>

\* Thirty days pass without a call: every row that exists has expired.
Expire ==
  /\ expired # [swap_requests |-> Len(swap_requests), course_requests |-> Len(course_requests)]
  /\ expired' = [swap_requests |-> Len(swap_requests), course_requests |-> Len(course_requests)]
  /\ UNCHANGED <<enrollments, swap_requests, swap_matches, course_requests, calls, last>>

Sweep(swapOrder, courseOrder, faults, pick) ==
  \E res \in {batchProcessSwaps(swap_requests, swap_matches, course_requests, enrollments,
                                 swapOrder, courseOrder, faults, pick)} :
      /\ Len(res.requests) <= MaxRequests
      /\ Len(res.matches) <= MaxMatches
      /\ swap_requests' = res.requests
      /\ swap_matches' = res.matches
      /\ course_requests' = res.course_requests
      /\ last' = [NoCall EXCEPT !.op = "sweep", !.args = <<swapOrder, courseOrder>>,
                                !.results = res.results]
      /\ UNCHANGED <<enrollments, expired, calls>>

\* The courses requests are made for while sweeps run.
SweepCourses == {"c1", "c2"}

\* At most one of the selected swap requests meets a failure of kind
\* fault (none of them when failing = 0 or fault = "none").
OneFault(selected, failing, fault) ==
  [r \in selected |-> IF r = failing THEN fault ELSE "none"]

\* The sweeps a state allows: the two selections in any order, a failure
\* for at most one selected swap request, any preferred candidate.
SweepAny(faultSet) ==
  \E swapOrder \in Orders(SelectExpiredActive(swap_requests, expired.swap_requests)),
     courseOrder \in Orders(SelectExpiredActive(course_requests, expired.course_requests)) :
     \E fault \in faultSet :
       \E failing \in IF fault = "none" THEN {0}
                      ELSE SelectExpiredActive(swap_requests, expired.swap_requests),
          pick \in IF Len(courseOrder) = 0 THEN {0} ELSE RequestIds(swap_requests) :
         Sweep(swapOrder, courseOrder,
               OneFault(SelectExpiredActive(swap_requests, expired.swap_requests), failing, fault),
               pick)

\* Requests are posted, expire and are swept; no call fails.
NextCourse ==
  \/ \E s \in Students, f \in SweepCourses \cup {Nil}, d \in SweepCourses \cup {Nil}, p \in Priorities :
        CreateRequest(s, f, d, p)
  \/ \E s \in Students, c \in SweepCourses, p \in Priorities : CreateCourseRequest(s, c, p)
  \/ Expire
  \/ SweepAny({"none"})

\* s1 holds c1 alone, so that s1 can ask for c2.
InitCourse == Init /\ enrollments["s1"] = {"c1"}

SpecCourse == InitCourse /\ [][NextCourse]_vars

\* The tables t after one more POST /requests, and after a reject of the
\* match that request made.
Posted(t, enr, s, f, d) ==
  createSwapRequest(t.requests, t.matches, enr, s, f, d, 1)

Rejected(t, s) ==
  rejectMatch(t.requests, t.matches, t.match, s)

\* The tables after s2, s3 and s1 have posted their requests (s2 and s3
\* offer c2 for c1, s1 offers c1 for c2 and is matched with s2 on
\* posting), before and after the match is rejected, and after s2 and s3
\* alone have posted; s1 may have posted a course request for c2 as well.
SweepStart ==
  LET enr == CHOOSE e \in EnrollmentConfigs : e["s1"] = {"c1"}
      none == [requests |-> <<>>, matches |-> <<>>, match |-> 0]
      two == Posted(Posted(none, enr, "s2", "c2", "c1"), enr, "s3", "c2", "c1")
      three == Posted(two, enr, "s1", "c1", "c2")
  IN  { [requests |-> t.requests, matches |-> t.matches, enr |-> enr] :
          t \in {two, three, Rejected(three, "s1")} }

InitSweep ==
  /\ \E start \in SweepStart :
        /\ enrollments = start.enr
        /\ swap_requests = start.requests
        /\ swap_matches = start.matches
        /\ course_requests \in
              {<<>>, createCourseRequest(<<>>, start.enr, "s1", "c2", 1).course_requests}
  /\ expired = NoneExpired
  /\ calls = {}
  /\ last = NoCall

NextSweep ==
  \/ Expire
  \/ SweepAny(SweepFaults)
  \/ \E m \in 1..MaxMatches, s \in Students : Confirm(m, s)
  \/ \E m \in 1..MaxMatches, s \in Students : Reject(m, s)
  \/ \E m \in 1..MaxMatches, s \in Students : MarkCompleted(m, s)

SpecSweep == InitSweep /\ [][NextSweep]_vars

\* The sweep as a job that keeps being run: time passes, and again and again
\* a sweep has just run (last.op says which handler ran last).
SweepRunsForever == []<>(last.op = "sweep")

SpecSweepFair == SpecSweep /\ WF_vars(Expire) /\ SweepRunsForever

\* Requests whose match attempt at creation can fail, swept later.
CreationFaults == {"none", "candidate_query"}

NextResweep ==
  \/ \E s \in Students, f \in SweepCourses, d \in SweepCourses, p \in Priorities :
        \E fault \in CreationFaults : CreateRequestFaulty(s, f, d, p, fault)
  \/ Expire
  \/ SweepAny({"none"})

SpecResweep == InitCourse /\ [][NextResweep]_vars

\* ------------------------------------------------- dropped courses

\* DELETE /enroll/:courseId: the caller's enrollment row gets
\* enrollment_status 'dropped'; no request of the caller is looked at.
dropCourse(enr, studentId, courseId) ==
  IF courseId \in enr[studentId]
  THEN [ok |-> TRUE, enrollments |-> [enr EXCEPT ![studentId] = @ \ {courseId}]]
  ELSE [ok |-> FALSE, enrollments |-> enr]

Drop(s, c) ==
  /\ dropCourse(enrollments, s, c).ok
  /\ enrollments' = dropCourse(enrollments, s, c).enrollments
  /\ last' = [NoCall EXCEPT !.op = "drop", !.caller = s]
  /\ UNCHANGED <<swap_requests, swap_matches, course_requests, expired, calls>>

\* The students and courses of the calls made while courses are dropped.
EnrollStudents == {"s1", "s2"}

EnrollCourses == {"c1", "c3"}

\* Students post swap requests and course requests and drop courses, and
\* the sweep runs.
NextEnroll ==
  \/ \E s \in EnrollStudents, f \in EnrollCourses, d \in EnrollCourses, p \in Priorities :
        CreateRequest(s, f, d, p)
  \/ \E s \in EnrollStudents, c \in EnrollCourses, p \in Priorities : CreateCourseRequest(s, c, p)
  \/ \E s \in EnrollStudents, c \in EnrollCourses : Drop(s, c)
  \/ Expire
  \/ SweepAny({"none"})

\* s1 holds c1 and c3, which meet at the same time.
InitEnroll == Init /\ enrollments["s1"] = {"c1", "c3"}

SpecEnroll == InitEnroll /\ [][NextEnroll]_vars

\* ------------------------------------------------- conflict checker alone

\* time_slots rows: day_of_week INTEGER, start_time and end_time TIME NOT
\* NULL, with no constraint between the two times.
SlotDays == {1, 2}

SlotTimes == {0, 1, 2}

Slots == [day_of_week : SlotDays, start_time : SlotTimes, end_time : SlotTimes]

SlotLists(maxLen) == { l \in SUBSET Slots : Cardinality(l) <= maxLen }

\* checkTimeConflicts is about to be called with two lists of slots.
InitConflict ==
  /\ enrollments = [s \in Students |-> {}]
  /\ swap_requests = <<>>
  /\ swap_matches = <<>>
  /\ course_requests = <<>>
  /\ expired = NoneExpired
  /\ calls = {}
  /\ \E existingTimeSlots \in SlotLists(MaxExisting), newTimeSlots \in SlotLists(MaxCandidate) :
        last = [NoCall EXCEPT !.args = <<existingTimeSlots, newTimeSlots>>]

CheckTimeConflicts ==
  /\ last.op = "init"
  /\ last.args # <<>>
  /\ last' = [last EXCEPT !.op = "checkTimeConflicts",
                          !.result = checkTimeConflicts(last.args[1], last.args[2])]
  /\ UNCHANGED <<enrollments, swap_requests, swap_matches, course_requests, expired, calls>>

SpecConflict == InitConflict /\ [][CheckTimeConflicts]_vars

\* ------------------------------------------------- priorities

\* The priority column is an INTEGER without a CHECK, and POST /requests
\* stores the priority of the request body as it is.
PriorityValues == {-1, 0, 1, 2}

\* Two students have each posted the same request c2 -> c1, with any
\* priorities; neither is a mirror of the other, so both are active.
InitPriority ==
  /\ enrollments \in EnrollmentConfigs
  /\ \E p2 \in PriorityValues, p3 \in PriorityValues :
        LET first == <<NewRequest(<<>>, "s2", "c2", "c1", p2)>>
        IN  swap_requests = Append(first, NewRequest(first, "s3", "c2", "c1", p3))
  /\ swap_matches = <<>>
  /\ course_requests = <<>>
  /\ expired = NoneExpired
  /\ calls = {}
  /\ last = NoCall

SpecPriority == InitPriority /\ [][Next]_vars

\* ------------------------------------------------- failing schedule loads

\* For each candidate id, whether a load of the safety check made for that
\* candidate (a student's schedule, a course's time slots) fails.
LoadFailures == [1..MaxRequests -> BOOLEAN]

\* Mutant: the catch of the safety check answers true.
canSwapWithoutConflictsOrFail_Open(enr, studentAId, studentBId, courseAId, courseBId, loadFails) ==
  IF loadFails THEN TRUE
  ELSE canSwapWithoutConflicts(enr, studentAId, studentBId, courseAId, courseBId)

\* canSwapWithoutConflicts with its try/catch: getStudentSchedule rethrows
\* and a time_slots error is thrown, both inside the try; the catch
\* returns false.
canSwapWithoutConflictsOrFail(enr, studentAId, studentBId, courseAId, courseBId, loadFails) ==
  IF loadFails THEN FALSE
  ELSE canSwapWithoutConflicts(enr, studentAId, studentBId, courseAId, courseBId)

\* The loop of findMutualSwapMatches over potentialMatches when the loads
\* fail for the candidates marked in failing.
ValidMatches(reqs, mats, enr, requestId, request, failing) ==
  { c \in PotentialMatches(reqs, request) :
      /\ canSwapWithoutConflictsOrFail(enr, request.requester_id, reqs[c].requester_id,
                                       request.from_course_id, request.desired_course_id,
                                       failing[c])
      /\ ExistingMatch(mats, requestId, c) = {} }

findMutualSwapMatchesOrFail(reqs, mats, enr, requestId, failing) ==
  IF Single({ r \in RequestIds(reqs) : r = requestId /\ reqs[r].status = "active" }) = <<>>
  THEN [ok |-> FALSE, matches |-> {}]
  ELSE [ok |-> TRUE, matches |-> ValidMatches(reqs, mats, enr, requestId, reqs[requestId], failing)]

\* processSwapRequest after findMutualSwapMatches has answered found.
ProcessFound(reqs, mats, requestId, found) ==
  IF ~found.ok
  THEN [ok |-> FALSE, matched |-> FALSE, requests |-> reqs, matches |-> mats,
        match |-> 0, matchedWith |-> 0]
  ELSE IF found.matches = {}
  THEN [ok |-> TRUE, matched |-> FALSE, requests |-> reqs, matches |-> mats,
        match |-> 0, matchedWith |-> 0]
  ELSE [ok |-> TRUE, matched |-> TRUE,
        requests |-> createSwapMatch(reqs, mats, requestId, BestMatch(reqs, found.matches)).requests,
        matches |-> createSwapMatch(reqs, mats, requestId, BestMatch(reqs, found.matches)).matches,
        match |-> Len(mats) + 1,
        matchedWith |-> BestMatch(reqs, found.matches)]

\* POST /requests over a valid body: the insert, then the match attempt.
PostAndProcess(reqs, mats, enr, inserted, failing) ==
  [ProcessFound(inserted, mats, Len(inserted),
                findMutualSwapMatchesOrFail(inserted, mats, enr, Len(inserted), failing))
     EXCEPT !.ok = TRUE]

createSwapRequestOrFail(reqs, mats, enr, studentId, fromCourseId, desiredCourseId, priority, failing) ==
  IF ~createSwapRequest(reqs, mats, enr, studentId, fromCourseId, desiredCourseId, priority).ok
  THEN [ok |-> FALSE, matched |-> FALSE, requests |-> reqs, matches |-> mats,
        match |-> 0, matchedWith |-> 0]
  ELSE PostAndProcess(reqs, mats, enr,
                      Append(reqs, NewRequest(reqs, studentId, fromCourseId, desiredCourseId, priority)),
                      failing)

CreateRequestOrFail(s, f, d, p, failing) ==
  \E res \in {createSwapRequestOrFail(swap_requests, swap_matches, enrollments, s, f, d, p, failing)} :
      /\ Len(res.requests) <= MaxRequests
      /\ Len(res.matches) <= MaxMatches
      /\ IF res.ok
         THEN /\ swap_requests' = res.requests
              /\ swap_matches' = res.matches
              /\ last' = [NoCall EXCEPT !.op = "create", !.caller = s,
                                        !.rid = Len(swap_requests) + 1,
                                        !.mid = res.match, !.matched = res.matched,
                                        !.matchedWith = res.matchedWith,
                                        !.args = failing]
              /\ UNCHANGED <<enrollments, course_requests, expired, calls>>
         ELSE UNCHANGED vars

NextLoads ==
  \E s \in Students, f \in Courses, d \in Courses, p \in Priorities :
     \E failing \in LoadFailures : CreateRequestOrFail(s, f, d, p, failing)

SpecLoads == InitPriority /\ [][NextLoads]_vars

\* ------------------------------------------------- concurrent handlers

\* A handler suspended at an await: pc names the database call it makes
\* next, read is the row its select returned.
InFlight(opName, s, m, pc, row) ==
  [op |-> opName, caller |-> s, mid |-> m, pc |-> pc, read |-> row]

\* Mutant: the update writes back the whole row that was read.
ConfirmWriteRow_WholeRow(cur, read, studentId) ==
  ConfirmUpdateData(read, studentId)

\* .update(updateData).eq('id', matchId): updateData, computed from the row
\* that was read, is applied to the row as it is at the time of the write.
ConfirmWriteRow(cur, read, studentId) ==
  LET own == IF read.student_a_id = studentId
             THEN [cur EXCEPT !.student_a_confirmed = TRUE]
             ELSE [cur EXCEPT !.student_b_confirmed = TRUE]
  IN  IF OtherConfirmed(read, studentId)
      THEN [own EXCEPT !.match_status = "confirmed"]
      ELSE own

\* confirmSwapMatch up to the await of its update.
ConfirmRead(m, s) ==
  /\ Cardinality(calls) < MaxCalls
  /\ SelectMatch(swap_matches, m, "pending") # <<>>
  /\ IsParticipant(swap_matches[m], s)
  /\ calls' = calls \cup {InFlight("confirm", s, m, "update_match", swap_matches[m])}
  /\ UNCHANGED <<enrollments, swap_requests, swap_matches, last, course_requests, expired>>

\* confirmSwapMatch from its update to its return.
ConfirmWrite(c) ==
  /\ c.op = "confirm"
  /\ swap_matches' = UpdateMatch(swap_matches, c.mid,
                                 ConfirmWriteRow(swap_matches[c.mid], c.read, c.caller))
  /\ calls' = calls \ {c}
  /\ last' = [NoCall EXCEPT !.op = "confirm", !.caller = c.caller, !.mid = c.mid,
                            !.status = IF ConfirmReleasesContact(c.read, c.caller)
                                       THEN "confirmed"
                                       ELSE "waiting_for_other_confirmation",
                            !.contact = IF ConfirmReleasesContact(c.read, c.caller)
                                        THEN OtherStudent(c.read, c.caller) ELSE Nil,
                            !.pre = PreMatch(swap_matches, c.mid)]
  /\ UNCHANGED <<enrollments, swap_requests, course_requests, expired>>

\* POST /matches/:matchId/reject up to the await of its match update.
RejectRead(m, s) ==
  /\ Cardinality(calls) < MaxCalls
  /\ SelectMatch(swap_matches, m, "pending") # <<>>
  /\ IsParticipant(swap_matches[m], s)
  /\ calls' = calls \cup {InFlight("reject", s, m, "update_match", swap_matches[m])}
  /\ UNCHANGED <<enrollments, swap_requests, swap_matches, last, course_requests, expired>>

\* .update({ match_status: 'rejected' }).eq('id', matchId)
RejectWriteMatch(c) ==
  /\ c.op = "reject"
  /\ c.pc = "update_match"
  /\ swap_matches' = UpdateMatch(swap_matches, c.mid,
                                 [swap_matches[c.mid] EXCEPT !.match_status = "rejected"])
  /\ calls' = (calls \ {c}) \cup {[c EXCEPT !.pc = "update_requests"]}
  /\ UNCHANGED <<enrollments, swap_requests, last, course_requests, expired>>

\* The Promise.all of the two request updates, and the response.
RejectWriteRequests(c) ==
  /\ c.op = "reject"
  /\ c.pc = "update_requests"
  /\ swap_requests' = SetStatus(swap_requests,
                                {c.read.request_a_id, c.read.request_b_id}, "active")
  /\ calls' = calls \ {c}
  /\ last' = [NoCall EXCEPT !.op = "reject", !.caller = c.caller, !.mid = c.mid,
                            !.status = "rejected",
                            !.pre = PreMatch(swap_matches, c.mid)]
  /\ UNCHANGED <<enrollments, swap_matches, course_requests, expired>>

\* The tables after s2, s3 and s1 have posted their requests and s1 was
\* matched with s2, with no confirmation yet or with one of the two.
RaceStart ==
  LET enr == CHOOSE e \in EnrollmentConfigs : e["s1"] = {"c1"}
      none == [requests |-> <<>>, matches |-> <<>>, match |-> 0]
      two == Posted(Posted(none, enr, "s2", "c2", "c1"), enr, "s3", "c2", "c1")
      three == Posted(two, enr, "s1", "c1", "c2")
  IN  { [requests |-> three.requests, matches |-> mats, enr |-> enr] :
          mats \in {three.matches} \cup
                   { confirmSwapMatch(three.requests, three.matches, three.match, s).matches :
                       s \in {"s1", "s2"} } }

InitRace ==
  /\ \E start \in RaceStart :
        /\ enrollments = start.enr
        /\ swap_requests = start.requests
        /\ swap_matches = start.matches
  /\ course_requests = <<>>
  /\ expired = NoneExpired
  /\ calls = {}
  /\ last = NoCall

NextRace ==
  \/ \E m \in 1..MaxMatches, s \in Students : ConfirmRead(m, s)
  \/ \E c \in calls : ConfirmWrite(c)
  \/ \E m \in 1..MaxMatches, s \in Students : RejectRead(m, s)
  \/ \E c \in calls : RejectWriteMatch(c)
  \/ \E c \in calls : RejectWriteRequests(c)

SpecRace == InitRace /\ [][NextRace]_vars

\* ------------------------------------------------- concurrent match attempts

\* A POST /requests that has inserted its row and is inside
\* processSwapRequest(rid): pc names the step it takes next, best is the
\* candidate it picked.
Attempt(rid, pc, best) ==
  [op |-> "process", rid |-> rid, pc |-> pc, best |-> best]

\* The validations of POST /requests.
PostValid(reqs, enr, studentId, fromCourseId, desiredCourseId) ==
  /\ fromCourseId # Nil /\ desiredCourseId # Nil
  /\ fromCourseId # desiredCourseId
  /\ fromCourseId \in enr[studentId]
  /\ ExistingRequest(reqs, studentId, fromCourseId, desiredCourseId) = <<>>

\* POST /requests up to the await of processSwapRequest.
PostInsert(s, f, d, p) ==
  /\ Cardinality(calls) < MaxCalls
  /\ Len(swap_requests) < MaxRequests
  /\ PostValid(swap_requests, enrollments, s, f, d)
  /\ swap_requests' = Append(swap_requests, NewRequest(swap_requests, s, f, d, p))
  /\ calls' = calls \cup {Attempt(Len(swap_requests) + 1, "find", 0)}
  /\ UNCHANGED <<enrollments, swap_matches, last, course_requests, expired>>

\* findMutualSwapMatches and the sort: the call ends when the request is
\* no longer active or no candidate is left.
ProcessFind(c) ==
  /\ c.pc = "find"
  /\ \E found \in {findMutualSwapMatches(swap_requests, swap_matches, enrollments, c.rid)} :
        IF found.ok /\ found.matches # {}
        THEN /\ calls' = (calls \ {c}) \cup
                            {Attempt(c.rid, "insert", BestMatch(swap_requests, found.matches))}
             /\ UNCHANGED last
        ELSE /\ calls' = calls \ {c}
             /\ last' = [NoCall EXCEPT !.op = "create", !.rid = c.rid,
                                       !.error = IF found.ok THEN Nil ELSE "match error"]
  /\ UNCHANGED <<enrollments, swap_requests, swap_matches, course_requests, expired>>

\* Mutant: the insert is skipped when a pending match over the two
\* requests exists by now.
ProcessInsertMatch_Recheck(c) ==
  /\ c.pc = "insert"
  /\ Len(swap_matches) < MaxMatches
  /\ swap_matches' = IF ExistingMatch(swap_matches, c.rid, c.best) = {}
                     THEN Append(swap_matches, NewMatch(swap_requests, c.rid, c.best))
                     ELSE swap_matches
  /\ calls' = (calls \ {c}) \cup {Attempt(c.rid, "update", c.best)}
  /\ UNCHANGED <<enrollments, swap_requests, last, course_requests, expired>>

\* createSwapMatch up to the await of the two request updates.
ProcessInsertMatch(c) ==
  /\ c.pc = "insert"
  /\ Len(swap_matches) < MaxMatches
  /\ swap_matches' = Append(swap_matches, NewMatch(swap_requests, c.rid, c.best))
  /\ calls' = (calls \ {c}) \cup {Attempt(c.rid, "update", c.best)}
  /\ UNCHANGED <<enrollments, swap_requests, last, course_requests, expired>>

\* The two request updates of createSwapMatch, and the response.
ProcessUpdateRequests(c) ==
  /\ c.pc = "update"
  /\ swap_requests' = SetStatus(swap_requests, {c.rid, c.best}, "matched")
  /\ calls' = calls \ {c}
  /\ last' = [NoCall EXCEPT !.op = "create", !.rid = c.rid, !.matched = TRUE,
                            !.matchedWith = c.best]
  /\ UNCHANGED <<enrollments, swap_matches, course_requests, expired>>

NextPipeline ==
  \/ \E s \in Students, f \in Courses, d \in Courses, p \in Priorities : PostInsert(s, f, d, p)
  \/ \E c \in calls : ProcessFind(c)
  \/ \E c \in calls : ProcessInsertMatch(c)
  \/ \E c \in calls : ProcessUpdateRequests(c)

SpecPipeline == Init /\ [][NextPipeline]_vars

\* ------------------------------------------------- concurrent confirmations

\* Mutant: the update that closes the match leaves the caller's completion
\* flag out.
CompleteWriteRow_StatusOnly(cur, read, studentId) ==
  LET own == IF read.student_a_id = studentId
             THEN [cur EXCEPT !.student_a_completed = TRUE]
             ELSE [cur EXCEPT !.student_b_completed = TRUE]
  IN  IF OtherCompleted(read, studentId)
      THEN [cur EXCEPT !.match_status = "completed"]
      ELSE own

\* markSwapCompleted's .update(updateData).eq('id', matchId), applied to
\* the row as it is at the time of the write.
CompleteWriteRow(cur, read, studentId) ==
  LET own == IF read.student_a_id = studentId
             THEN [cur EXCEPT !.student_a_completed = TRUE]
             ELSE [cur EXCEPT !.student_b_completed = TRUE]
  IN  IF OtherCompleted(read, studentId)
      THEN [own EXCEPT !.match_status = "completed"]
      ELSE own

\* markSwapCompleted up to its first write: the two request updates when
\* the row read has the other student's completion flag, the match update
\* otherwise.
CompleteRead(m, s) ==
  /\ Cardinality(calls) < MaxCalls
  /\ SelectMatch(swap_matches, m, "confirmed") # <<>>
  /\ IsParticipant(swap_matches[m], s)
  /\ calls' = calls \cup
                {InFlight("complete", s, m,
                          IF OtherCompleted(swap_matches[m], s)
                          THEN "update_requests" ELSE "update_match",
                          swap_matches[m])}
  /\ UNCHANGED <<enrollments, swap_requests, swap_matches, last, course_requests, expired>>

\* The Promise.all that marks both requests completed.
CompleteWriteRequests(c) ==
  /\ c.op = "complete"
  /\ c.pc = "update_requests"
  /\ swap_requests' = SetStatus(swap_requests,
                                {c.read.request_a_id, c.read.request_b_id}, "completed")
  /\ calls' = (calls \ {c}) \cup {[c EXCEPT !.pc = "update_match"]}
  /\ UNCHANGED <<enrollments, swap_matches, last, course_requests, expired>>

\* The match update of markSwapCompleted, and the response.
CompleteWriteMatch(c) ==
  /\ c.op = "complete"
  /\ c.pc = "update_match"
  /\ swap_matches' = UpdateMatch(swap_matches, c.mid,
                                 CompleteWriteRow(swap_matches[c.mid], c.read, c.caller))
  /\ calls' = calls \ {c}
  /\ last' = [NoCall EXCEPT !.op = "complete", !.caller = c.caller, !.mid = c.mid,
                            !.status = IF OtherCompleted(c.read, c.caller)
                                       THEN "completed" ELSE "waiting",
                            !.pre = PreMatch(swap_matches, c.mid)]
  /\ UNCHANGED <<enrollments, swap_requests, course_requests, expired>>

\* The two students of a match confirm it and mark it completed, their
\* calls overlapping in any way.
NextFlags ==
  \/ \E m \in 1..MaxMatches, s \in Students : ConfirmRead(m, s)
  \/ \E c \in calls : ConfirmWrite(c)
  \/ \E m \in 1..MaxMatches, s \in Students : CompleteRead(m, s)
  \/ \E c \in calls : CompleteWriteRequests(c)
  \/ \E c \in calls : CompleteWriteMatch(c)

SpecFlags == InitRace /\ [][NextFlags]_vars

\* ------------------------------------------------- confirmation timestamps

\* Clock readings; 0 stands for a NULL timestamp.
Times == 1..MaxTime

\* The result of confirmSwapMatch with the confirmed_at of updateData,
\* new Date() at the time of the call, written to the row.
StampConfirmed(res, matchId, now) ==
  IF res.ok
  THEN [res EXCEPT !.matches = [@ EXCEPT ![matchId] = [@ EXCEPT !.confirmed_at = now]]]
  ELSE res

confirmSwapMatchAt(reqs, mats, matchId, studentId, now) ==
  StampConfirmed(confirmSwapMatch(reqs, mats, matchId, studentId), matchId, now)

\* A Confirm at clock reading now; the clock does not run backwards.
ConfirmAt(m, s, now) ==
  /\ \A k \in MatchIds(swap_matches) : swap_matches[k].confirmed_at <= now
  /\ Lifecycle("confirm", confirmSwapMatchAt(swap_requests, swap_matches, m, s, now), m, s)

\* The pending match of RaceStart, not confirmed by anyone, with its
\* confirmed_at column NULL.
InitStamp ==
  /\ \E start \in RaceStart :
        /\ \A k \in MatchIds(start.matches) :
              ~start.matches[k].student_a_confirmed /\ ~start.matches[k].student_b_confirmed
        /\ enrollments = start.enr
        /\ swap_requests = start.requests
        /\ swap_matches = [k \in MatchIds(start.matches) |->
                             [f \in DOMAIN start.matches[k] \cup {"confirmed_at"} |->
                                IF f = "confirmed_at" THEN 0 ELSE start.matches[k][f]]]
  /\ course_requests = <<>>
  /\ expired = NoneExpired
  /\ calls = {}
  /\ last = NoCall

NextStamp ==
  \/ \E m \in 1..MaxMatches, s \in Students, now \in Times : ConfirmAt(m, s, now)
  \/ \E m \in 1..MaxMatches, s \in Students : Reject(m, s)
  \/ \E m \in 1..MaxMatches, s \in Students : MarkCompleted(m, s)

SpecStamp == InitStamp /\ [][NextStamp]_vars

\* ------------------------------------------------- owner updates

\* .eq('id', requestId).eq('requester_id', req.user.id).single()
OwnRequest(reqs, requestId, userId) ==
  Single({ r \in RequestIds(reqs) : r = requestId /\ reqs[r].requester_id = userId })

\* PUT /requests/:requestId with a status in the body: the status is
\* written when it is 'active' or 'cancelled', whatever the row holds.
updateSwapRequest(reqs, requestId, userId, status) ==
  IF OwnRequest(reqs, requestId, userId) = <<>>
  THEN [ok |-> FALSE, requests |-> reqs]
  ELSE [ok |-> TRUE,
        requests |-> IF status \in {"active", "cancelled"}
                     THEN SetStatus(reqs, {requestId}, status)
                     ELSE reqs]

\* DELETE /requests/:requestId: refused for a matched request only.
cancelSwapRequest(reqs, requestId, userId) ==
  IF OwnRequest(reqs, requestId, userId) = <<>>
  THEN [ok |-> FALSE, requests |-> reqs]
  ELSE IF reqs[requestId].status = "matched"
  THEN [ok |-> FALSE, requests |-> reqs]
  ELSE [ok |-> TRUE, requests |-> SetStatus(reqs, {requestId}, "cancelled")]

\* A successful owner call.
OwnerCall(opName, res, r, s) ==
  IF res.ok
  THEN /\ swap_requests' = res.requests
       /\ last' = [NoCall EXCEPT !.op = opName, !.caller = s, !.rid = r]
       /\ UNCHANGED <<enrollments, swap_matches, course_requests, expired, calls>>
  ELSE UNCHANGED vars

\* The statuses a PUT body can carry; "matched" stands for every value the
\* handler ignores.
BodyStatuses == {"active", "cancelled", "matched"}

UpdateRequest(r, s, status) ==
  OwnerCall("update", updateSwapRequest(swap_requests, r, s, status), r, s)

CancelRequest(r, s) ==
  OwnerCall("cancel", cancelSwapRequest(swap_requests, r, s), r, s)

\* s1 holds c1, s2 and s3 hold c2.
InitOwner == Init /\ enrollments["s1"] = {"c1"}

\* Requests are posted, updated and cancelled by their owners, matches are
\* confirmed, rejected and completed, one call at a time.
NextOwner ==
  \/ \E s \in Students, f \in SweepCourses, d \in SweepCourses, p \in Priorities :
        CreateRequest(s, f, d, p)
  \/ \E r \in 1..MaxRequests, s \in Students, status \in BodyStatuses : UpdateRequest(r, s, status)
  \/ \E r \in 1..MaxRequests, s \in Students : CancelRequest(r, s)
  \/ \E m \in 1..MaxMatches, s \in Students : Confirm(m, s)
  \/ \E m \in 1..MaxMatches, s \in Students : Reject(m, s)
  \/ \E m \in 1..MaxMatches, s \in Students : MarkCompleted(m, s)

SpecOwner == InitOwner /\ [][NextOwner]_vars

\* ================================================================ claims

\* The match row the last call worked on, before and after the call.
LastPre == last.pre[1]

LastPost == swap_matches[last.mid]

OwnConfirmed(match, studentId) ==
  IF match.student_a_id = studentId THEN match.student_a_confirmed ELSE match.student_b_confirmed

OwnCompleted(match, studentId) ==
  IF match.student_a_id = studentId THEN match.student_a_completed ELSE match.student_b_completed

RequestStatuses(match) ==
  <<swap_requests[match.request_a_id].status, swap_requests[match.request_b_id].status>>

\* C1: contact information is returned (by Confirm or by GetContactInfo)
\* only if both confirmation flags of the match are true once the call's
\* write is applied; a Confirm by the first of the two confirmers returns
\* no contact information.
C1_ContactOnlyAfterBothConfirmed ==
  /\ (last.op \in {"confirm", "contact"} /\ last.contact # Nil) =>
        /\ LastPost.student_a_confirmed
        /\ LastPost.student_b_confirmed
  /\ (last.op = "confirm" /\ ~OtherConfirmed(LastPre, last.caller)) =>
        last.contact = Nil

C1_Witness ==
  /\ last.op = "confirm"
  /\ last.contact # Nil
  /\ LastPost.student_a_confirmed
  /\ LastPost.student_b_confirmed

\* C2: on a pending match with both flags false, the first participant's
\* Confirm returns waiting_for_other_confirmation without contact info and
\* leaves the match pending; the other participant's Confirm after it
\* returns confirmed with the first caller's contact info and leaves the
\* match confirmed.
C2_ConfirmInTurn ==
  last.op = "confirm" =>
    /\ (~LastPre.student_a_confirmed /\ ~LastPre.student_b_confirmed) =>
          /\ last.status = "waiting_for_other_confirmation"
          /\ last.contact = Nil
          /\ LastPost.match_status = "pending"
          /\ OwnConfirmed(LastPost, last.caller)
          /\ ~OtherConfirmed(LastPost, last.caller)
    /\ (~OwnConfirmed(LastPre, last.caller) /\ OtherConfirmed(LastPre, last.caller)) =>
          /\ last.status = "confirmed"
          /\ last.contact \in {LastPre.student_a_id, LastPre.student_b_id} \ {last.caller}
          /\ LastPost.match_status = "confirmed"

C2_Witness ==
  /\ last.op = "confirm"
  /\ ~OwnConfirmed(LastPre, last.caller)
  /\ OtherConfirmed(LastPre, last.caller)
  /\ last.status = "confirmed"
  /\ last.contact # Nil
  /\ last.contact # last.caller
  /\ LastPost.match_status = "confirmed"

\* C3: GetContactInfo(matchId, studentId) succeeds exactly when the match
\* exists, has status confirmed and studentId is one of its two students;
\* on success it returns the counterpart's contact info, never the
\* caller's own, and it changes no match and no request.
C3_ContactInfoAccess ==
  /\ \A m \in 1..MaxMatches : \A s \in Students :
       LET res == getMatchContactInfo(swap_requests, swap_matches, m, s)
       IN  /\ res.ok <=> /\ m \in MatchIds(swap_matches)
                         /\ swap_matches[m].match_status = "confirmed"
                         /\ s \in {swap_matches[m].student_a_id, swap_matches[m].student_b_id}
           /\ res.ok => /\ res.contact \in {swap_matches[m].student_a_id,
                                            swap_matches[m].student_b_id}
                        /\ res.contact # s
           /\ ~res.ok => res.contact = Nil
           /\ res.matches = swap_matches
           /\ res.requests = swap_requests
  /\ last.op = "contact" =>
       /\ LastPre.match_status = "confirmed"
       /\ LastPost = LastPre
       /\ RequestStatuses(LastPost) = last.preReq
       /\ last.contact \in {LastPre.student_a_id, LastPre.student_b_id} \ {last.caller}

C3_Witness ==
  /\ last.op = "contact"
  /\ last.contact # Nil
  /\ last.contact # last.caller
  /\ \E s \in Students :
       ~getMatchContactInfo(swap_requests, swap_matches, last.mid, s).ok

\* C4: a match's status changes only pending -> confirmed, pending ->
\* rejected or confirmed -> completed; Confirm and Reject on a match that
\* is not pending and MarkCompleted on a match that is not confirmed fail
\* and change nothing, so nothing leaves completed or rejected.
C4_AllowedTransitions ==
  {<<"pending", "confirmed">>, <<"pending", "rejected">>, <<"confirmed", "completed">>}

C4_WrongStateFails ==
  \A m \in 1..MaxMatches : \A s \in Students :
    LET exists == m \in MatchIds(swap_matches)
        c == confirmSwapMatch(swap_requests, swap_matches, m, s)
        r == rejectMatch(swap_requests, swap_matches, m, s)
        k == markSwapCompleted(swap_requests, swap_matches, m, s)
    IN  /\ (~exists \/ swap_matches[m].match_status # "pending") =>
              /\ ~c.ok /\ c.matches = swap_matches /\ c.requests = swap_requests
              /\ ~r.ok /\ r.matches = swap_matches /\ r.requests = swap_requests
        /\ (~exists \/ swap_matches[m].match_status # "confirmed") =>
              /\ ~k.ok /\ k.matches = swap_matches /\ k.requests = swap_requests

C4_StatusStep ==
  \A m \in MatchIds(swap_matches) :
    /\ m \in MatchIds(swap_matches')
    /\ \/ swap_matches'[m].match_status = swap_matches[m].match_status
       \/ <<swap_matches[m].match_status, swap_matches'[m].match_status>> \in C4_AllowedTransitions
    /\ swap_matches[m].match_status \in {"completed", "rejected"} =>
          swap_matches'[m] = swap_matches[m]

C4_StatusTransitions == []C4_WrongStateFails /\ [][C4_StatusStep]_vars

C4_Witness ==
  /\ last.op = "complete"
  /\ LastPre.match_status = "confirmed"
  /\ LastPost.match_status = "completed"
  /\ \A s \in Students : ~confirmSwapMatch(swap_requests, swap_matches, last.mid, s).ok

\* C5: a match created from requests a and b is pending with both
\* confirmation flags and both completion flags false, and a and b are
\* matched; a participant's Reject sets the match to rejected and both
\* requests back to active, after which findMutualSwapMatches on either
\* request returns the other.
C5_CreateAndReject ==
  /\ (last.op = "create" /\ last.matched) =>
       /\ LastPost = NewMatch(swap_requests, last.rid, last.matchedWith)
       /\ LastPost.match_status = "pending"
       /\ ~LastPost.student_a_confirmed /\ ~LastPost.student_b_confirmed
       /\ ~LastPost.student_a_completed /\ ~LastPost.student_b_completed
       /\ RequestStatuses(LastPost) = <<"matched", "matched">>
  /\ last.op = "reject" =>
       /\ last.caller \in {LastPre.student_a_id, LastPre.student_b_id}
       /\ LastPre.match_status = "pending"
       /\ LastPost.match_status = "rejected"
       /\ RequestStatuses(LastPost) = <<"active", "active">>
       /\ LastPost.request_b_id \in
            findMutualSwapMatches(swap_requests, swap_matches, enrollments,
                                  LastPost.request_a_id).matches
       /\ LastPost.request_a_id \in
            findMutualSwapMatches(swap_requests, swap_matches, enrollments,
                                  LastPost.request_b_id).matches

C5_Witness ==
  /\ last.op = "reject"
  /\ last.preReq = <<"matched", "matched">>
  /\ LastPost.match_status = "rejected"
  /\ RequestStatuses(LastPost) = <<"active", "active">>

\* C6: on a confirmed match, the first participant's MarkCompleted sets
\* only the caller's completion flag and reports waiting; after the other
\* participant's MarkCompleted the match and both originating requests
\* have status completed.
C6_CompleteInTurn ==
  last.op = "complete" =>
    /\ (~LastPre.student_a_completed /\ ~LastPre.student_b_completed) =>
          /\ last.status = "waiting"
          /\ OwnCompleted(LastPost, last.caller)
          /\ ~OtherCompleted(LastPost, last.caller)
          /\ LastPost.match_status = "confirmed"
    /\ (~OwnCompleted(LastPre, last.caller) /\ OtherCompleted(LastPre, last.caller)) =>
          /\ last.status = "completed"
          /\ LastPost.match_status = "completed"
          /\ LastPost.student_a_completed /\ LastPost.student_b_completed
          /\ RequestStatuses(LastPost) = <<"completed", "completed">>

C6_Witness ==
  /\ last.op = "complete"
  /\ ~OwnCompleted(LastPre, last.caller)
  /\ OtherCompleted(LastPre, last.caller)
  /\ LastPost.match_status = "completed"
  /\ RequestStatuses(LastPost) = <<"completed", "completed">>

\* C7: while the other student has not called MarkCompleted, a
\* MarkCompleted by one student (a first or a repeated call) leaves the
\* match confirmed, the other student's flag false and both originating
\* requests matched.
C7_NoUnilateralCompletion ==
  (last.op = "complete" /\ ~OtherCompleted(LastPre, last.caller)) =>
    /\ LastPost.match_status = "confirmed"
    /\ ~OtherCompleted(LastPost, last.caller)
    /\ last.status = "waiting"
    /\ RequestStatuses(LastPost) = last.preReq
    /\ last.preReq = <<"matched", "matched">> =>
          RequestStatuses(LastPost) = <<"matched", "matched">>

C7_Witness ==
  /\ last.op = "complete"
  /\ last.preReq = <<"matched", "matched">>
  /\ OwnCompleted(LastPre, last.caller)
  /\ ~OtherCompleted(LastPre, last.caller)
  /\ LastPost.match_status = "confirmed"

\* C8: a repeated Confirm by a student whose flag is already true, while
\* the other student has not confirmed, leaves the match pending with the
\* caller's flag true and the other's false and returns
\* waiting_for_other_confirmation without contact info; Confirm calls by
\* one student alone never make the match confirmed.
C8_ConfirmIdempotent ==
  (last.op = "confirm" /\ ~OtherConfirmed(LastPre, last.caller)) =>
    /\ LastPost.match_status = "pending"
    /\ OwnConfirmed(LastPost, last.caller)
    /\ ~OtherConfirmed(LastPost, last.caller)
    /\ last.status = "waiting_for_other_confirmation"
    /\ last.contact = Nil

C8_Witness ==
  /\ last.op = "confirm"
  /\ OwnConfirmed(LastPre, last.caller)
  /\ ~OtherConfirmed(LastPre, last.caller)
  /\ LastPost.match_status = "pending"
  /\ last.status = "waiting_for_other_confirmation"

\* C9: findMutualSwapMatches(r) returns only requests c with c # r, a
\* requester other than r's, status active, c.offered = r.desired and
\* c.desired = r.offered; when r is missing or not active it fails,
\* returns no candidate and nothing is changed.
C9_MirrorCandidatesOnly ==
  \A r \in 1..MaxRequests :
    LET res == findMutualSwapMatches(swap_requests, swap_matches, enrollments, r)
        proc == processSwapRequest(swap_requests, swap_matches, enrollments, r)
    IN  /\ (r \notin RequestIds(swap_requests) \/ swap_requests[r].status # "active") =>
              /\ ~res.ok
              /\ res.matches = {}
              /\ ~proc.ok /\ ~proc.matched
              /\ proc.requests = swap_requests
              /\ proc.matches = swap_matches
        /\ (r \in RequestIds(swap_requests) /\ swap_requests[r].status = "active") => res.ok
        /\ \A c \in res.matches :
              /\ c \in RequestIds(swap_requests)
              /\ c # r
              /\ swap_requests[c].requester_id # swap_requests[r].requester_id
              /\ swap_requests[c].status = "active"
              /\ swap_requests[c].from_course_id = swap_requests[r].desired_course_id
              /\ swap_requests[c].desired_course_id = swap_requests[r].from_course_id

C9_Witness ==
  /\ \E r \in RequestIds(swap_requests) :
       findMutualSwapMatches(swap_requests, swap_matches, enrollments, r).matches # {}
  /\ \E r \in 1..MaxRequests :
       ~findMutualSwapMatches(swap_requests, swap_matches, enrollments, r).ok

\* C10: every match created by processSwapRequest is conflict-free: for
\* each of its two students, no slot of an enrolled course other than the
\* course given up overlaps (same day, half-open intervals) a slot of the
\* course received.
C10_HalfOpenOverlap(a, b) ==
  /\ a.day_of_week = b.day_of_week
  /\ a.start_time < b.end_time
  /\ b.start_time < a.end_time

C10_ConflictFree(studentId, givenUp, received) ==
  \A course \in enrollments[studentId] \ {givenUp} :
    \A e \in time_slots[course] : \A n \in time_slots[received] :
      ~C10_HalfOpenOverlap(e, n)

C10_MatchesConflictFree ==
  \A m \in MatchIds(swap_matches) :
    /\ C10_ConflictFree(swap_matches[m].student_a_id,
                        swap_matches[m].course_a_id, swap_matches[m].course_b_id)
    /\ C10_ConflictFree(swap_matches[m].student_b_id,
                        swap_matches[m].course_b_id, swap_matches[m].course_a_id)

\* C11: when student A creates a request X -> Y while another student holds
\* an active request Y -> X and neither student's schedule would conflict,
\* the creation call returns matched:true with a pending match whose
\* request_a is the new request and whose request_b is an active mirror
\* request of another student, and both requests are matched when the
\* call returns.
C11_Mirrors(s, f, d) ==
  { b \in RequestIds(swap_requests) :
      /\ swap_requests[b].status = "active"
      /\ swap_requests[b].requester_id # s
      /\ swap_requests[b].from_course_id = d
      /\ swap_requests[b].desired_course_id = f }

C11_CreateMatchesMirror ==
  /\ \A s \in Students, f \in Courses, d \in Courses, p \in Priorities :
       LET res == createSwapRequest(swap_requests, swap_matches, enrollments, s, f, d, p)
           safe == { b \in C11_Mirrors(s, f, d) :
                       /\ C10_ConflictFree(s, f, d)
                       /\ C10_ConflictFree(swap_requests[b].requester_id, d, f) }
       IN  (res.ok /\ safe # {}) =>
             /\ res.matched
             /\ res.rid = Len(swap_requests) + 1
             /\ res.matchedWith \in C11_Mirrors(s, f, d)
             /\ res.match = Len(swap_matches) + 1
             /\ res.matches[res.match].match_status = "pending"
             /\ res.matches[res.match].request_a_id = res.rid
             /\ res.matches[res.match].request_b_id = res.matchedWith
             /\ res.requests[res.rid].requester_id = s
             /\ res.requests[res.rid].status = "matched"
             /\ res.requests[res.matchedWith].status = "matched"
  /\ (last.op = "create" /\ last.matched) =>
       /\ LastPost.request_a_id = last.rid
       /\ LastPost.request_b_id = last.matchedWith
       /\ LastPost.student_a_id = last.caller
       /\ LastPost.match_status = "pending"
       /\ RequestStatuses(LastPost) = <<"matched", "matched">>

C11_Witness ==
  /\ last.op = "create"
  /\ last.matched
  /\ LastPost.request_a_id = last.rid
  /\ LastPost.request_b_id = last.matchedWith
  /\ C10_ConflictFree(LastPost.student_a_id, LastPost.course_a_id, LastPost.course_b_id)
  /\ C10_ConflictFree(LastPost.student_b_id, LastPost.course_b_id, LastPost.course_a_id)

\* C12: for every non-empty match pool and any integer priorities,
\* processSwapRequest pairs the request with the candidate of highest
\* priority, and among candidates of equal highest priority with the one
\* created earliest: no candidate left in the pool has a higher priority
\* than the chosen one, or the same priority and an earlier created_at.
C12_LeftInPool ==
  { c \in RequestIds(swap_requests) :
      /\ swap_requests[c].status = "active"
      /\ swap_requests[c].requester_id # swap_requests[last.rid].requester_id
      /\ swap_requests[c].from_course_id = swap_requests[last.rid].desired_course_id
      /\ swap_requests[c].desired_course_id = swap_requests[last.rid].from_course_id
      /\ canSwapWithoutConflicts(enrollments, swap_requests[last.rid].requester_id,
                                 swap_requests[c].requester_id,
                                 swap_requests[last.rid].from_course_id,
                                 swap_requests[last.rid].desired_course_id) }

C12_HighestPriorityFirst ==
  (last.op = "create" /\ last.matched) =>
    \A c \in C12_LeftInPool :
      \/ swap_requests[last.matchedWith].priority > swap_requests[c].priority
      \/ /\ swap_requests[last.matchedWith].priority = swap_requests[c].priority
         /\ swap_requests[last.matchedWith].created_at <= swap_requests[c].created_at

\* C13: creating a valid swap request always reports success and leaves
\* the request stored, with status active, or matched if a match was made,
\* even when the immediate match attempt finds nothing or fails with a
\* dependency error; a failed match attempt is reported as matched:false,
\* keeps the request active and changes no other request and no match.
C13_RequestSurvivesMatchFailure ==
  /\ \A s \in Students, f \in Courses, d \in Courses, p \in Priorities, fault \in MatchFaults :
       LET plain == createSwapRequest(swap_requests, swap_matches, enrollments, s, f, d, p)
           res == createSwapRequestFaulty(swap_requests, swap_matches, enrollments, s, f, d, p, fault)
           rid == Len(swap_requests) + 1
       IN  plain.ok =>
             /\ res.ok
             /\ res.rid = rid
             /\ Len(res.requests) = rid
             /\ res.requests[rid].requester_id = s
             /\ res.requests[rid].from_course_id = f
             /\ res.requests[rid].desired_course_id = d
             /\ res.requests[rid].status \in {"active", "matched"}
             /\ res.requests[rid].status = "matched" => res.matched
             /\ ~res.matched =>
                   /\ res.requests = Append(swap_requests, NewRequest(swap_requests, s, f, d, p))
                   /\ res.matches = swap_matches
             /\ res.error # Nil => ~res.matched
  /\ (last.op = "create" /\ last.error # Nil) =>
       /\ ~last.matched
       /\ last.rid \in RequestIds(swap_requests)
       /\ swap_requests[last.rid].status = "active"

C13_Witness ==
  /\ last.op = "create"
  /\ last.error # Nil
  /\ ~last.matched
  /\ swap_requests[last.rid].status = "active"
  /\ \E c \in RequestIds(swap_requests) :
       /\ swap_requests[c].status = "active"
       /\ swap_requests[c].requester_id # last.caller
       /\ swap_requests[c].from_course_id = swap_requests[last.rid].desired_course_id
       /\ swap_requests[c].desired_course_id = swap_requests[last.rid].from_course_id

\* C14: Confirm, Reject, GetContactInfo and MarkCompleted called by a
\* student who is neither student A nor student B of the match fail and
\* leave the match (its status and its four flags) and both originating
\* requests unchanged.
C14_Outsider(m, s) ==
  /\ m \in MatchIds(swap_matches)
  /\ s # swap_matches[m].student_a_id
  /\ s # swap_matches[m].student_b_id

C14_OutsiderCallsFail ==
  \A m \in 1..MaxMatches : \A s \in Students :
    C14_Outsider(m, s) =>
      \A res \in { confirmSwapMatch(swap_requests, swap_matches, m, s),
                    rejectMatch(swap_requests, swap_matches, m, s),
                    getMatchContactInfo(swap_requests, swap_matches, m, s),
                    markSwapCompleted(swap_requests, swap_matches, m, s) } :
        /\ ~res.ok
        /\ res.error # Nil
        /\ res.contact = Nil
        /\ res.matches[m] = swap_matches[m]
        /\ res.requests[swap_matches[m].request_a_id] = swap_requests[swap_matches[m].request_a_id]
        /\ res.requests[swap_matches[m].request_b_id] = swap_requests[swap_matches[m].request_b_id]

C14_Witness ==
  \E m \in MatchIds(swap_matches) : \E s \in Students, t \in Students :
    /\ C14_Outsider(m, s)
    /\ swap_matches[m].match_status = "pending"
    /\ ~confirmSwapMatch(swap_requests, swap_matches, m, s).ok
    /\ ~rejectMatch(swap_requests, swap_matches, m, s).ok
    /\ confirmSwapMatch(swap_requests, swap_matches, m, t).ok
    /\ rejectMatch(swap_requests, swap_matches, m, t).ok

\* C15: checkTimeConflicts(existing, candidate) returns true whenever some
\* slot e of existing and some slot c of candidate have the same day of
\* week and overlap under half-open semantics (c.start < e.end and
\* c.end > e.start): no overlap is missed.
C15_SomeOverlap(existing, candidate) ==
  \E e \in existing : \E c \in candidate : C10_HalfOpenOverlap(e, c)

C16_Disjoint(a, b) ==
  \/ a.day_of_week # b.day_of_week
  \/ a.end_time <= b.start_time
  \/ b.end_time <= a.start_time

C16_NoFalseConflict ==
  (/\ last.op = "checkTimeConflicts"
   /\ \A e \in last.args[1] : \A c \in last.args[2] : C16_Disjoint(e, c)) =>
     ~last.result

\* C17: a sweep returns exactly one result entry (matched, not matched or
\* error) for every request it selected, in the order of the selection,
\* and the failure of processSwapRequest for one selected request does not
\* keep the requests selected after it from being processed.
C17_OneEntryPerSelected ==
  last.op = "sweep" =>
    LET swapOrder == last.args[1]
        courseOrder == last.args[2]
    IN  /\ Len(last.results) = Len(swapOrder) + Len(courseOrder)
        /\ \A i \in 1..Len(swapOrder) :
              /\ last.results[i].type = "swap"
              /\ last.results[i].requestId = swapOrder[i]
              /\ ~(last.results[i].matched /\ last.results[i].error)
              /\ last.results[i].matched => swap_requests[swapOrder[i]].status = "matched"
        /\ \A j \in 1..Len(courseOrder) :
              /\ last.results[Len(swapOrder) + j].type = "course_request"
              /\ last.results[Len(swapOrder) + j].requestId = courseOrder[j]
              /\ ~(last.results[Len(swapOrder) + j].matched /\ last.results[Len(swapOrder) + j].error)
              /\ last.results[Len(swapOrder) + j].matched =>
                    course_requests[courseOrder[j]].status = "matched"

C17_Witness ==
  /\ last.op = "sweep"
  /\ Len(last.results) = Len(last.args[1]) + Len(last.args[2])
  /\ \E i, j \in 1..Len(last.args[1]) :
       /\ i < j
       /\ last.results[i].error
       /\ swap_requests[last.args[1][i]].status = "active"
       /\ last.results[j].matched

\* C18: in every reachable state every swap request has an offered course
\* different from its desired course, whether POST /requests or
\* createSwapFromCourseRequest created it; a creation call with equal or
\* missing course ids is rejected and creates no request.
C18_OfferedIsNotDesired ==
  /\ \A r \in RequestIds(swap_requests) :
       /\ swap_requests[r].from_course_id \in Courses
       /\ swap_requests[r].desired_course_id \in Courses
       /\ swap_requests[r].from_course_id # swap_requests[r].desired_course_id
  /\ \A s \in Students, f \in Courses \cup {Nil}, d \in Courses \cup {Nil}, p \in Priorities :
       (f = Nil \/ d = Nil \/ f = d) =>
         LET res == createSwapRequest(swap_requests, swap_matches, enrollments, s, f, d, p)
         IN  /\ ~res.ok
             /\ res.error # Nil
             /\ res.requests = swap_requests
             /\ res.matches = swap_matches

C18_Witness ==
  /\ last.op = "sweep"
  /\ \E i \in 1..Len(last.results) :
       /\ last.results[i].type = "course_request"
       /\ last.results[i].matched
  /\ \E r \in RequestIds(swap_requests) :
       /\ r = Len(swap_requests)
       /\ swap_requests[r].requester_id = course_requests[1].student_id
       /\ swap_requests[r].desired_course_id = course_requests[1].requested_course_id
       /\ swap_requests[r].from_course_id # swap_requests[r].desired_course_id

\* C19: no operation of the matching, confirmation, rejection, completion
\* or sweep pipeline changes a student's enrollment records: every step
\* leaves the enrollments table as it was.
C19_EnrollmentsUntouched == [][enrollments' = enrollments]_vars

C19_Witness ==
  /\ last.op = "complete"
  /\ LastPost.match_status = "completed"
  /\ RequestStatuses(LastPost) = <<"completed", "completed">>
  /\ LastPost.course_a_id \in enrollments[LastPost.student_a_id]
  /\ LastPost.course_b_id \in enrollments[LastPost.student_b_id]
  /\ LastPost.course_b_id \notin enrollments[LastPost.student_a_id]
  /\ LastPost.course_a_id \notin enrollments[LastPost.student_b_id]

\* C20: when a Confirm and a Reject on the same pending match run
\* concurrently, each a read followed after any delay by its unconditional
\* writes, a match whose status is rejected is never afterwards written
\* confirmed, and the requests of a confirmed match are never returned to
\* active.
C20_TerminalStaysTerminal ==
  [][\A m \in MatchIds(swap_matches) :
       /\ ~(/\ swap_matches[m].match_status = "rejected"
            /\ swap_matches'[m].match_status = "confirmed")
       /\ swap_matches[m].match_status = "confirmed" =>
            \A r \in {swap_matches[m].request_a_id, swap_matches[m].request_b_id} :
               swap_requests'[r].status = "active" => swap_requests[r].status = "active"]_vars

\* C21: nothing serialises the match attempts: a processSwapRequest call
\* that has passed the pending-duplicate check inserts its match whatever
\* the table holds by then, so two concurrent calls for mirrored requests
\* leave two pending matches over the same two requests.
C21_InsertAfterCheck ==
  [][\A c \in calls :
       (c.pc = "insert" /\ c \notin calls') =>
          swap_matches' = Append(swap_matches, NewMatch(swap_requests, c.rid, c.best))]_vars

C21_Witness ==
  \E m1, m2 \in MatchIds(swap_matches) :
     /\ m1 # m2
     /\ swap_matches[m1].match_status = "pending"
     /\ swap_matches[m2].match_status = "pending"
     /\ {swap_matches[m1].request_a_id, swap_matches[m1].request_b_id} =
        {swap_matches[m2].request_a_id, swap_matches[m2].request_b_id}

\* The flag columns of a match row.
C22_Flags == {"student_a_confirmed", "student_b_confirmed",
              "student_a_completed", "student_b_completed"}

\* The flag a Confirm or MarkCompleted call of a student owns.
C22_OwnFlag(c) ==
  IF c.op = "confirm"
  THEN IF c.read.student_a_id = c.caller THEN "student_a_confirmed" ELSE "student_b_confirmed"
  ELSE IF c.read.student_a_id = c.caller THEN "student_a_completed" ELSE "student_b_completed"

\* C22: a Confirm (MarkCompleted) by a student sets that student's own
\* confirmation (completion) flag and writes no other flag; whatever the
\* interleaving of the two students' calls, a flag that is true never goes
\* back to false, so once both students' Confirm calls have finished both
\* confirmation flags are true.
C22_OwnFlagOnly ==
  [][/\ \A m \in MatchIds(swap_matches), f \in C22_Flags :
           swap_matches[m][f] => swap_matches'[m][f]
     /\ \A c \in calls :
           (c.pc = "update_match" /\ c \notin calls') =>
              /\ swap_matches'[c.mid][C22_OwnFlag(c)]
              /\ \A f \in C22_Flags \ {C22_OwnFlag(c)} :
                    swap_matches'[c.mid][f] = swap_matches[c.mid][f]]_vars

\* Both students marked the swap completed, each reading the match before
\* the other wrote: the last call answered "waiting" and all four flags
\* are true.
C22_Witness ==
  /\ calls = {}
  /\ last.op = "complete"
  /\ last.status = "waiting"
  /\ \A f \in C22_Flags : swap_matches[last.mid][f]

\* C23: when no Confirm call is in flight, a match with both confirmation
\* flags true is not pending, also after two Confirm calls that each read
\* the match before the other wrote.
C23_BothConfirmedNotPending ==
  (\A c \in calls : c.op # "confirm") =>
     \A m \in MatchIds(swap_matches) :
        (swap_matches[m].student_a_confirmed /\ swap_matches[m].student_b_confirmed) =>
           swap_matches[m].match_status # "pending"

\* The last Confirm read the match before the other student's Confirm
\* wrote (it answered "waiting") and wrote after it.
C23_Witness ==
  /\ calls = {}
  /\ last.op = "confirm"
  /\ last.status = "waiting_for_other_confirmation"
  /\ OtherConfirmed(last.pre[1], last.caller)
  /\ last.pre[1].match_status = "pending"
  /\ swap_matches[last.mid].student_a_confirmed
  /\ swap_matches[last.mid].student_b_confirmed
  /\ swap_matches[last.mid].match_status = "confirmed"

\* C24: in every reachable state a match whose status is completed has
\* both of its requests in status completed, also when the two students'
\* MarkCompleted calls interleave and the status trigger promotes the match.
C24_CompletedRequests ==
  \A m \in MatchIds(swap_matches) :
     swap_matches[m].match_status = "completed" =>
        /\ swap_requests[swap_matches[m].request_a_id].status = "completed"
        /\ swap_requests[swap_matches[m].request_b_id].status = "completed"

\* C25: a repeated Confirm by a student whose confirmation flag is already
\* true leaves every field of the match record unchanged, the confirmation
\* timestamp included.
C25_RepeatedConfirmChangesNothing ==
  (last.op = "confirm" /\ OwnConfirmed(LastPre, last.caller)) => LastPost = LastPre

\* The matches in status pending or confirmed that reference request r.
C26_OpenMatches(r) ==
  { m \in MatchIds(swap_matches) :
      /\ swap_matches[m].match_status \in {"pending", "confirmed"}
      /\ r \in {swap_matches[m].request_a_id, swap_matches[m].request_b_id} }

\* C26: when the exposed operations run one at a time, no request is
\* referenced by two matches that are both pending or confirmed.
C26_OneOpenMatchPerRequest ==
  \A r \in RequestIds(swap_requests) : Cardinality(C26_OpenMatches(r)) <= 1

\* Some pending match references request r.
C27_Touched(r) ==
  \E m \in MatchIds(swap_matches) :
     /\ swap_matches[m].match_status = "pending"
     /\ r \in {swap_matches[m].request_a_id, swap_matches[m].request_b_id}

\* C27: findMutualSwapMatches(r) keeps a conflict-free mirror candidate c
\* only when no pending match references r and none references c; a
\* pending match on either one drops c.
C27_DropsTouched ==
  \A r \in RequestIds(swap_requests) :
     swap_requests[r].status = "active" =>
        findMutualSwapMatches(swap_requests, swap_matches, enrollments, r).matches =
          { c \in PotentialMatches(swap_requests, swap_requests[r]) :
              /\ canSwapWithoutConflicts(enrollments, swap_requests[r].requester_id,
                                         swap_requests[c].requester_id,
                                         swap_requests[r].from_course_id,
                                         swap_requests[r].desired_course_id)
              /\ ~C27_Touched(r)
              /\ ~C27_Touched(c) }

\* C28: in every reachable state at most one request is active for each
\* requester, offered course and desired course.
C28_OneActivePerTriple ==
  \A r1, r2 \in RequestIds(swap_requests) :
     (/\ swap_requests[r1].status = "active"
      /\ swap_requests[r2].status = "active"
      /\ swap_requests[r1].requester_id = swap_requests[r2].requester_id
      /\ swap_requests[r1].from_course_id = swap_requests[r2].from_course_id
      /\ swap_requests[r1].desired_course_id = swap_requests[r2].desired_course_id)
     => r1 = r2

\* C29: a request becomes cancelled only from active and only by a call of
\* its owner; a cancel or update on a matched, completed, expired or
\* cancelled request leaves its status unchanged.
C29_CancelOnlyFromActive ==
  [][\A r \in RequestIds(swap_requests) :
       /\ (swap_requests[r].status # "cancelled" /\ swap_requests'[r].status = "cancelled") =>
             /\ swap_requests[r].status = "active"
             /\ last'.op \in {"update", "cancel"}
             /\ last'.caller = swap_requests[r].requester_id
       /\ (last'.op \in {"update", "cancel"} /\ last'.rid = r /\ swap_requests[r].status # "active") =>
             swap_requests'[r].status = swap_requests[r].status]_vars

\* C30: only the rejection of a pending match moves a request from a
\* status other than active back to active.
C30_OnlyRejectReactivates ==
  [][\A r \in RequestIds(swap_requests) :
       (swap_requests[r].status # "active" /\ swap_requests'[r].status = "active") =>
          /\ last'.op = "reject"
          /\ r \in {swap_matches[last'.mid].request_a_id, swap_matches[last'.mid].request_b_id}
          /\ swap_matches[last'.mid].match_status = "pending"]_vars

\* Request r is active and past its expires_at.
C31_Overdue(r) ==
  /\ r \in RequestIds(swap_requests)
  /\ swap_requests[r].status = "active"
  /\ r <= expired.swap_requests

\* C31: when the sweep keeps running, a request that is active past its
\* expiry is eventually given the status expired, unless it is matched (or
\* otherwise leaves the status active) first.
C31_OverdueExpires ==
  \A r \in 1..MaxRequests :
     C31_Overdue(r) ~>
        (r \in RequestIds(swap_requests) /\ swap_requests[r].status # "active")

\* Requests a and b are active mirror requests of different students whose
\* exchange passes the conflict check.
C32_ActiveMirrors(a, b) ==
  /\ a \in RequestIds(swap_requests) /\ b \in RequestIds(swap_requests)
  /\ swap_requests[a].status = "active" /\ swap_requests[b].status = "active"
  /\ swap_requests[a].requester_id # swap_requests[b].requester_id
  /\ swap_requests[a].from_course_id = swap_requests[b].desired_course_id
  /\ swap_requests[a].desired_course_id = swap_requests[b].from_course_id
  /\ canSwapWithoutConflicts(enrollments, swap_requests[a].requester_id,
                             swap_requests[b].requester_id,
                             swap_requests[a].from_course_id,
                             swap_requests[a].desired_course_id)

\* C32: a sweep re-attempts matching for every active request, expired or
\* not: of two active conflict-free mirror requests of different students,
\* at least one is matched once the sweep has run.
C32_SweepMatchesMirrors ==
  [][ (last'.op = "sweep" /\ expired' = expired)
        => \A a, b \in 1..MaxRequests :
              C32_ActiveMirrors(a, b)
                 => \/ swap_requests'[a].status # "active"
                    \/ swap_requests'[b].status # "active" ]_vars

\* The mirror candidates of the request last created that the safety check
\* and the duplicate check accept when every load succeeds.
C33_SafePool(reqs, mats, rid) ==
  findMutualSwapMatches(reqs, mats, enrollments, rid).matches

\* C33: a failed load inside the safety check drops the candidate it was
\* made for and raises nothing: the creation call succeeds, the finder
\* returns exactly the other safe candidates, a match is made if and only
\* if one of them is left, and never with a dropped candidate.
C33_FailedLoadDropsCandidate ==
  /\ \A s \in Students, f \in Courses, d \in Courses, failing \in LoadFailures :
       LET plain == createSwapRequest(swap_requests, swap_matches, enrollments, s, f, d, 1)
           inserted == Append(swap_requests, NewRequest(swap_requests, s, f, d, 1))
           rid == Len(swap_requests) + 1
           found == findMutualSwapMatchesOrFail(inserted, swap_matches, enrollments, rid, failing)
           res == createSwapRequestOrFail(swap_requests, swap_matches, enrollments, s, f, d, 1, failing)
           remaining == { c \in C33_SafePool(inserted, swap_matches, rid) : ~failing[c] }
       IN  plain.ok =>
             /\ found.ok
             /\ found.matches = remaining
             /\ res.ok
             /\ res.matched <=> remaining # {}
             /\ res.matched => res.matchedWith \in remaining
             /\ \A m \in MatchIds(res.matches) \ MatchIds(swap_matches) :
                   /\ ~failing[res.matches[m].request_b_id]
                   /\ res.matches[m].request_a_id = rid
             /\ \A c \in RequestIds(swap_requests) :
                   failing[c] => res.requests[c] = swap_requests[c]
  /\ (last.op = "create" /\ last.matched) => ~last.args[last.matchedWith]

C33_Witness ==
  /\ last.op = "create"
  /\ last.matched
  /\ \E c \in RequestIds(swap_requests) :
        /\ last.args[c]
        /\ c # last.matchedWith
        /\ swap_requests[c].status = "active"
        /\ swap_requests[c].from_course_id = swap_requests[last.rid].desired_course_id
        /\ swap_requests[c].desired_course_id = swap_requests[last.rid].from_course_id
        /\ swap_requests[c].requester_id # last.caller

\* What processSwapRequest(r) has changed in the tables reqs and mats.
C34_ChangedRequests(reqs, res) ==
  { c \in RequestIds(reqs) : res.requests[c] # reqs[c] }

C34_OneMatchTwoRequests(reqs, mats, r, res) ==
  res.matched =>
    /\ res.matchedWith \in RequestIds(reqs) \ {r}
    /\ Len(res.matches) = Len(mats) + 1
    /\ \A m \in MatchIds(mats) : res.matches[m] = mats[m]
    /\ res.match = Len(mats) + 1
    /\ {res.matches[res.match].request_a_id, res.matches[res.match].request_b_id}
          = {r, res.matchedWith}
    /\ Len(res.requests) = Len(reqs)
    /\ C34_ChangedRequests(reqs, res) = {r, res.matchedWith}
    /\ \A c \in {r, res.matchedWith} :
          /\ reqs[c].status = "active"
          /\ res.requests[c] = [reqs[c] EXCEPT !.status = "matched"]

\* C34: a processSwapRequest(r) that matches inserts exactly one match,
\* whatever the number of candidates, and sets exactly r and the winning
\* candidate to matched; no other request and no other match changes. It
\* is checked for every stored request and for every request a POST
\* /requests inserts.
C34_MatchFrame ==
  /\ \A r \in RequestIds(swap_requests) :
        C34_OneMatchTwoRequests(swap_requests, swap_matches, r,
           processSwapRequest(swap_requests, swap_matches, enrollments, r))
  /\ \A s \in Students, f \in Courses, d \in Courses :
        LET inserted == Append(swap_requests, NewRequest(swap_requests, s, f, d, 1))
        IN  createSwapRequest(swap_requests, swap_matches, enrollments, s, f, d, 1).ok =>
              C34_OneMatchTwoRequests(inserted, swap_matches, Len(inserted),
                 processSwapRequest(inserted, swap_matches, enrollments, Len(inserted)))
  /\ (last.op = "create" /\ last.matched) =>
        /\ last.mid = Len(swap_matches)
        /\ \A c \in C12_LeftInPool : swap_requests[c].status = "active"

C34_Witness ==
  /\ last.op = "create"
  /\ last.matched
  /\ C12_LeftInPool # {}
  /\ swap_requests[last.rid].status = "matched"
  /\ swap_requests[last.matchedWith].status = "matched"

\* C35: a processSwapRequest(r) that finds no candidate answers
\* matched: false and changes no request and no match. It is checked for
\* every stored request and for every request a POST /requests inserts.
C35_NoMatchNoChange ==
  /\ \A r \in RequestIds(swap_requests) :
        LET found == findMutualSwapMatches(swap_requests, swap_matches, enrollments, r)
            res == processSwapRequest(swap_requests, swap_matches, enrollments, r)
        IN  (found.ok /\ found.matches = {}) =>
              /\ res.ok
              /\ ~res.matched
              /\ res.requests = swap_requests
              /\ res.matches = swap_matches
  /\ \A s \in Students, f \in Courses, d \in Courses :
        LET inserted == Append(swap_requests, NewRequest(swap_requests, s, f, d, 1))
            found == findMutualSwapMatches(inserted, swap_matches, enrollments, Len(inserted))
            res == createSwapRequest(swap_requests, swap_matches, enrollments, s, f, d, 1)
        IN  (res.ok /\ found.matches = {}) =>
              /\ ~res.matched
              /\ res.requests = inserted
              /\ res.matches = swap_matches
  /\ (last.op = "create" /\ ~last.matched) =>
        /\ swap_requests[last.rid].status = "active"
        /\ \A m \in MatchIds(swap_matches) :
              last.rid \notin {swap_matches[m].request_a_id, swap_matches[m].request_b_id}

\* The request last created found a mirror request of another student and
\* dropped it, so its pool was empty.
C35_Witness ==
  /\ last.op = "create"
  /\ ~last.matched
  /\ last.rid = Len(swap_requests)
  /\ swap_requests[last.rid].status = "active"
  /\ \E c \in RequestIds(swap_requests) :
        /\ swap_requests[c].status = "active"
        /\ swap_requests[c].requester_id # last.caller
        /\ swap_requests[c].from_course_id = swap_requests[last.rid].desired_course_id
        /\ swap_requests[c].desired_course_id = swap_requests[last.rid].from_course_id

\* The match row names its two requesters, course_a is what request a
\* offers and request b asks for, course_b what request b offers and
\* request a asks for.
C36_Mirrored(reqs, match) ==
  LET a == reqs[match.request_a_id]
      b == reqs[match.request_b_id]
  IN  /\ match.student_a_id = a.requester_id
      /\ match.student_b_id = b.requester_id
      /\ match.course_a_id = a.from_course_id
      /\ match.course_a_id = b.desired_course_id
      /\ match.course_b_id = b.from_course_id
      /\ match.course_b_id = a.desired_course_id

\* The request of swap_matches[m] that student s made.
C36_OwnRequest(m, s) ==
  IF swap_matches[m].student_a_id = s
  THEN swap_requests[swap_matches[m].request_a_id]
  ELSE swap_requests[swap_matches[m].request_b_id]

\* C36: every match names the requesters of its two requests, with
\* course_a the course request a offers and request b desires and course_b
\* the course request b offers and request a desires, also for a match the
\* course-request path would create; GetContactInfo answers with the
\* course the caller gives as yourCourse and the course the caller
\* receives as theirCourse.
C36_MatchCourses ==
  /\ \A m \in MatchIds(swap_matches) : C36_Mirrored(swap_requests, swap_matches[m])
  /\ \A s \in Students, c \in Courses :
       LET crs == <<NewCourseRequest(s, c, 1)>>
       IN  \A r \in findMatchesForCourseRequest(swap_requests, crs, enrollments, 1).matches :
              LET res == createSwapFromCourseRequest(swap_requests, swap_matches, crs, 1, r)
              IN  /\ Len(res.matches) = Len(swap_matches) + 1
                  /\ C36_Mirrored(res.requests, res.matches[Len(res.matches)])
                  /\ res.matches[Len(res.matches)].student_a_id = s
                  /\ res.matches[Len(res.matches)].course_b_id = c
  /\ \A m \in MatchIds(swap_matches), s \in Students :
       LET res == getMatchContactInfo(swap_requests, swap_matches, m, s)
       IN  res.ok =>
             /\ res.detail[1] = C36_OwnRequest(m, s).from_course_id
             /\ res.detail[2] = C36_OwnRequest(m, s).desired_course_id
  /\ last.op = "contact" =>
       /\ last.detail[1] = C36_OwnRequest(last.mid, last.caller).from_course_id
       /\ last.detail[2] = C36_OwnRequest(last.mid, last.caller).desired_course_id
       /\ last.detail[2] = C36_OwnRequest(last.mid, last.contact).from_course_id

C36_Witness ==
  /\ last.op = "contact"
  /\ last.caller = swap_matches[last.mid].student_b_id
  /\ last.detail = <<swap_matches[last.mid].course_b_id, swap_matches[last.mid].course_a_id>>
  /\ last.detail[1] # last.detail[2]

\* C37: a confirmed or completed match has both confirmation flags set, a
\* completed match has both completion flags set as well, and a match with
\* a completion flag set has both confirmation flags set.
C37_FlagsFollowStatus ==
  \A m \in MatchIds(swap_matches) :
    LET match == swap_matches[m]
    IN  /\ match.match_status \in {"confirmed", "completed"} =>
              match.student_a_confirmed /\ match.student_b_confirmed
        /\ match.match_status = "completed" =>
              match.student_a_completed /\ match.student_b_completed
        /\ (match.student_a_completed \/ match.student_b_completed) =>
              match.student_a_confirmed /\ match.student_b_confirmed

\* The match of the last call has been confirmed by both students and
\* closed by the second completion.
C37_Witness ==
  \E m \in MatchIds(swap_matches) :
    /\ m = last.mid
    /\ swap_matches[m].student_a_confirmed /\ swap_matches[m].student_b_confirmed
    /\ swap_matches[m].match_status = "completed"
    /\ swap_matches[m].student_a_completed
    /\ swap_matches[m].student_b_completed
    /\ last.op = "complete"
    /\ last.status = "completed"

\* C38: a request has status completed only while a match that references
\* it is completed; a MarkCompleted whose match update fails answers with
\* an error and leaves both requests of the match as they were.
C38_CompletedOnlyWithMatch ==
  /\ \A r \in RequestIds(swap_requests) :
        swap_requests[r].status = "completed" =>
           \E m \in MatchIds(swap_matches) :
              /\ r \in {swap_matches[m].request_a_id, swap_matches[m].request_b_id}
              /\ swap_matches[m].match_status = "completed"
  /\ (last.op = "complete" /\ last.error # Nil) =>
        RequestStatuses(LastPost) = last.preReq

\* C39: the two participants of every match are different students,
\* whichever path created the match.
C39_DistinctParticipants ==
  \A m \in MatchIds(swap_matches) :
     swap_matches[m].student_a_id # swap_matches[m].student_b_id

\* C40: a match is never created over a request that is past its
\* expires_at at that moment: every match a step inserts references two
\* requests that have not expired.
C40_NoMatchOverExpired ==
  [][ \A m \in MatchIds(swap_matches') \ MatchIds(swap_matches) :
         /\ swap_matches'[m].request_a_id > expired.swap_requests
         /\ swap_matches'[m].request_b_id > expired.swap_requests ]_vars

====
